---- MODULE Spec2Model ----
(***************************************************************************)
(* The graph orchestration engine of DevMaster (backend/app/agents):       *)
(* OrchestratorGraph (orchestrator.py) walking a graph of agent and router *)
(* nodes over one Work Record (DevMasterState), and the BaseAgent.run      *)
(* lifecycle wrapper (base.py) that turns an agent's execute into a delta. *)
(* Timestamps (start_time, last_update, updated_at) and the opaque payload *)
(* fields (plan, artifacts, ...) carry no control flow and are left out.   *)
(* Beside the engine: the agent registry, the workflow builders and the    *)
(* agent service, concurrent execute() calls on shared agent instances,    *)
(* the core BaseAgent (core/agents/base.py) and the two socket managers    *)
(* (services/websocket_manager.py, core/websocket.py), each with its own   *)
(* specification over the variables it owns.                               *)
(***************************************************************************)
EXTENDS Integers, Sequences, FiniteSets, TLC

VARIABLES
    nodes,        \* OrchestratorGraph.nodes: name -> Node
    entry_point,  \* OrchestratorGraph.entry_point
    behaviour,    \* agent name -> what that agent's execute / validate_preconditions do
    caller_state, \* the initial_state dict the caller passes to execute()
    state,        \* the local `state` dict of execute()
    current,      \* the local current_node_name of execute()
    pc,           \* position of execute(): idle, loop, route, final, done, raised
    ran,          \* history: the agents whose run() was called, in order
    steps,        \* history: number of nodes the loop has entered
    no_match,     \* history: some routing step found no matching edge
    agents,       \* AgentRegistry._agents: the (name, class) bindings in insertion order
    instances,    \* AgentRegistry._instances: name -> cached instance
    created,      \* number of agent instances constructed so far
    log,          \* history: the registry and graph-construction calls, with outcome
    active_executions, \* AgentService.active_executions: execution_id -> entry
    returned,     \* history: what the last execute_task call returned
    core_state,   \* core: the Work Record handed to core BaseAgent.execute
    core_status,  \* core: BaseAgent.status of each core agent
    core_delta,   \* core: what the last call of core BaseAgent.execute returned
    core_calls,   \* core: number of calls of core BaseAgent.execute so far
    active_connections, \* services ConnectionManager: project_id -> set of sockets
    connection_info,    \* services ConnectionManager: socket -> metadata
    socket_log,         \* history: the calls of the services ConnectionManager
    core_connections,   \* core ConnectionManager.active_connections (a list)
    project_connections, \* core ConnectionManager.project_connections
    broadcasts,         \* core: the broadcast_to_project calls in progress
    core_socket_calls,  \* core: number of connect / disconnect calls so far
    executions,         \* concurrent execute() calls: each one's record and position
    agent_state         \* BaseAgent.state of the shared agent instances

registry_vars == <<agents, instances, created>>
service_vars == <<active_executions, returned>>
engine_vars == <<behaviour, caller_state, state, current, pc, ran, steps, no_match>>
core_vars == <<core_state, core_status, core_delta, core_calls>>

\* the state of the components beside the engine, its registry and its service
socket_vars == <<active_connections, connection_info, socket_log>>
core_socket_vars == <<core_connections, project_connections, broadcasts,
                      core_socket_calls>>
concurrent_vars == <<executions, agent_state>>
aux_vars == <<core_vars, socket_vars, core_socket_vars, concurrent_vars>>

vars == <<nodes, entry_point, engine_vars, registry_vars, log, service_vars, aux_vars>>

\* the state of the engine, its registry and its service
base_vars == <<nodes, entry_point, engine_vars, registry_vars, log, service_vars>>

\* ----------------------------------------------------------------- values
None == "None"
END == "END"
Done == "Done"
Ghost == "Ghost"          \* a name that is never a node of any graph

\* state.get("max_retries", 3) in OrchestratorGraph.execute
DefaultMaxRetries == 3

\* bounds of the model
MaxChain == 3             \* longest linear chain of agents
MaxSteps == 2 * MaxChain  \* nodes one execute() may enter (each agent and its router)
MaxRetriesInit == 2       \* largest max_retries a caller supplies

AgentPool == <<"A", "B", "C", "D", "E">>

EmptyDict == [k \in {} |-> None]

\* dict.get(key, default)
Get(d, k, default) == IF k \in DOMAIN d THEN d[k] ELSE default

\* Python truthiness of an optional string
Truthy(v) == v # None /\ v # ""

\* dict.update(updates): keys of updates overwrite, the other keys stay
Update(d, updates) == updates @@ d

\* ------------------------------------------------------------- BaseAgent
\* What an agent's own code does, as data:
\*   pre      result of validate_preconditions
\*   outcome  "ok" (AgentResult success), "fail" (success = False),
\*            "throw" (execute raises), "throw_once" (raises while the
\*            record's error_count is 0, succeeds afterwards),
\*            "pre_throw" (validate_preconditions itself raises)
\*   next     AgentResult.next_agent (None when not given)
\*   upd      AgentResult.state_updates
\*   msg      whether AgentResult.messages holds one message
Beh(pre, outcome, next, upd, msg) ==
    [pre |-> pre, outcome |-> outcome, next |-> next, upd |-> upd, msg |-> msg]

\* (mutant) a run() that calls execute without looking at the preconditions
ThrowsIgnoringPreconditions(b, s) ==
    \/ b.outcome = "pre_throw"
    \/ b.outcome = "throw"
    \/ b.outcome = "throw_once" /\ Get(s, "error_count", 0) = 0

Throws(b, s) ==
    \/ ~b.pre
    \/ b.outcome = "pre_throw"
    \/ b.outcome = "throw"
    \/ b.outcome = "throw_once" /\ Get(s, "error_count", 0) = 0

\* the statement of run() that raises, None when none does
RaisingStep(b, s) ==
    CASE b.outcome = "pre_throw" -> "validate_preconditions"
      [] ~b.pre -> "preconditions_not_met"
      [] b.outcome = "throw" -> "execute"
      [] b.outcome = "throw_once" /\ Get(s, "error_count", 0) = 0 -> "execute"
      [] OTHER -> None

\* (mutant) a try block that starts after the precondition check
TryBlockAfterPreconditions == {"execute"}

\* the statements the try block of run() encloses
TryBlock == {"validate_preconditions", "preconditions_not_met", "execute"}

\* an exception leaves run(): it was raised outside the try block
RunEscapes(b, s) == RaisingStep(b, s) # None /\ RaisingStep(b, s) \notin TryBlock

ErrorText(b) ==
    CASE b.outcome = "pre_throw" -> "validate_preconditions raised"
      [] ~b.pre -> "Preconditions not met"
      [] OTHER -> "execute raised"

Success(b) == b.outcome # "fail"

\* (mutant) an except branch that also lists the agent as completed
RunFailureMarksCompleted(name, b, s) ==
    [error_messages |-> Append(Get(s, "error_messages", <<>>),
                               [kind |-> "agent", name |-> name, text |-> ErrorText(b)]),
     error_count |-> Get(s, "error_count", 0) + 1,
     agent_history |-> Append(Get(s, "agent_history", <<>>),
                              [agent |-> name, status |-> "failed", error |-> ErrorText(b)]),
     completed_agents |-> Append(Get(s, "completed_agents", <<>>), name)]

\* (mutant) an except branch that leaves error_messages alone
RunFailureNoMessage(name, b, s) ==
    [error_count |-> Get(s, "error_count", 0) + 1,
     agent_history |-> Append(Get(s, "agent_history", <<>>),
                              [agent |-> name, status |-> "failed", error |-> ErrorText(b)])]

\* (mutant) an except branch that leaves agent_history alone
RunFailureNoHistory(name, b, s) ==
    [error_messages |-> Append(Get(s, "error_messages", <<>>),
                               [kind |-> "agent", name |-> name, text |-> ErrorText(b)]),
     error_count |-> Get(s, "error_count", 0) + 1]

\* the except branch of BaseAgent.run
RunFailure(name, b, s) ==
    [error_messages |-> Append(Get(s, "error_messages", <<>>),
                               [kind |-> "agent", name |-> name, text |-> ErrorText(b)]),
     error_count |-> Get(s, "error_count", 0) + 1,
     agent_history |-> Append(Get(s, "agent_history", <<>>),
                              [agent |-> name, status |-> "failed", error |-> ErrorText(b)])]

InSeq(x, sq) == \E i \in 1..Len(sq) : sq[i] = x

\* (mutant) appending without the membership test
CompletedUpdateNoMembershipTest(name, b, s) ==
    IF Success(b)
    THEN [completed_agents |-> Append(Get(s, "completed_agents", <<>>), name)]
    ELSE EmptyDict

\* (mutant) appending whatever result.success is
CompletedUpdateOnFailure(name, b, s) ==
    LET completed == Get(s, "completed_agents", <<>>)
    IN  IF ~InSeq(name, completed)
        THEN [completed_agents |-> Append(completed, name)]
        ELSE EmptyDict

\* the completed_agents entry of the delta
CompletedUpdate(name, b, s) ==
    LET completed == Get(s, "completed_agents", <<>>)
    IN  IF ~InSeq(name, completed) /\ Success(b)
        THEN [completed_agents |-> Append(completed, name)]
        ELSE EmptyDict

\* (mutant) the try branch without the hand-off to result.next_agent
RunResultNoHandoff(name, b, s) ==
    LET u1 == Update(b.upd, CompletedUpdate(name, b, s))
        u3 == IF b.msg
              THEN Update(u1, [messages |-> Append(Get(s, "messages", <<>>),
                                                   [agent_name |-> name, content |-> name])])
              ELSE u1
    IN  Update(u3, [agent_history |->
                      Append(Get(s, "agent_history", <<>>),
                             [agent |-> name,
                              status |-> IF Success(b) THEN "completed" ELSE "failed",
                              error |-> None])])

\* the try branch of BaseAgent.run, after execute returned a result
RunResult(name, b, s) ==
    LET u1 == Update(b.upd, CompletedUpdate(name, b, s))
        u2 == IF Truthy(b.next) THEN Update(u1, [active_agent |-> b.next]) ELSE u1
        u3 == IF b.msg
              THEN Update(u2, [messages |-> Append(Get(s, "messages", <<>>),
                                                   [agent_name |-> name, content |-> name])])
              ELSE u2
    IN  Update(u3, [agent_history |->
                      Append(Get(s, "agent_history", <<>>),
                             [agent |-> name,
                              status |-> IF Success(b) THEN "completed" ELSE "failed",
                              error |-> None])])

\* BaseAgent.run: the delta to merge into the Work Record
Run(name, b, s) == IF Throws(b, s) THEN RunFailure(name, b, s) ELSE RunResult(name, b, s)


\* ------------------------------------------------------- router functions
\* The router functions of the repository, by name:
\*   "default"    create_default_router (workflows.py passes it for every agent)
\*   "active"     lambda state: state.get("active_agent", "END")   (test fixture)
\*   "const_end"  lambda state: "END"                               (test_error_propagation)
\*   "by_status"  a router whose keys are not node names: "planned" once an
\*                agent wrote status = planning, "unplanned" otherwise
\*   "raise"      a router function that raises
RouterFuncs == {"default", "active", "const_end", "by_status", "raise"}

create_default_router(s) ==
    LET agent_name == Get(s, "active_agent", None)
    IN  IF Truthy(agent_name)
        THEN IF agent_name = Done THEN END ELSE agent_name
        ELSE END

RouterRaises(rf, s) == rf = "raise"

RouterEval(rf, s) ==
    CASE rf = "default"   -> create_default_router(s)
      [] rf = "active"    -> Get(s, "active_agent", END)
      [] rf = "const_end" -> END
      [] rf = "by_status" -> IF Get(s, "status", None) = "planning" THEN "planned" ELSE "unplanned"
      [] OTHER            -> None

\* ------------------------------------------------------------------ Edge
\* Edge.condition: kind "none" is condition = None; kind "route" is the lambda
\* add_conditional_edges builds (router(state) == key); kind "pred" is a caller's
\* predicate: "has_errors" (error_count > 0), "never", "raise" (raises),
\* "raise_once" (raises while error_count is 0, true afterwards).
NoCondition == [kind |-> "none", id |-> None, router |-> None, key |-> None]
Pred(id) == [kind |-> "pred", id |-> id, router |-> None, key |-> None]
RouteCondition(rf, k) == [kind |-> "route", id |-> None, router |-> rf, key |-> k]

Edge(source, target, condition) ==
    [source |-> source, target |-> target, condition |-> condition]

ConditionRaises(c, s) ==
    \/ c.kind = "route" /\ RouterRaises(c.router, s)
    \/ c.kind = "pred" /\ c.id = "raise"
    \/ c.kind = "pred" /\ c.id = "raise_once" /\ Get(s, "error_count", 0) = 0

ConditionHolds(c, s) ==
    CASE c.kind = "none"  -> TRUE
      [] c.kind = "route" -> RouterEval(c.router, s) = c.key
      [] c.kind = "pred"  -> CASE c.id = "has_errors" -> Get(s, "error_count", 0) > 0
                               [] c.id = "never"      -> FALSE
                               [] OTHER               -> TRUE

\* Edge.should_traverse (only evaluated where the condition does not raise)
should_traverse(e, s) == ConditionHolds(e.condition, s)

\* ------------------------------------------------------------------ Node
Node(name, type, agent, router_func) ==
    [name |-> name, type |-> type, agent |-> agent, router_func |-> router_func,
     edges |-> <<>>]

\* ----------------------------------------------------- OrchestratorGraph
\* A graph value; raised records that the last construction call raised.
Graph(ns, ep, raised) == [nodes |-> ns, entry_point |-> ep, raised |-> raised]

\* OrchestratorGraph.__init__
NewGraph == Graph(END :> Node(END, "end", None, None), None, FALSE)

add_node(g, name, type, agent, router_func) ==
    IF name \in DOMAIN g.nodes
    THEN Graph(g.nodes, g.entry_point, TRUE)
    ELSE Graph((name :> Node(name, type, agent, router_func)) @@ g.nodes,
               g.entry_point, FALSE)

\* (mutant) an add_edge that does not look at the target
add_edgeAnyTarget(g, source, target, condition) ==
    IF source \notin DOMAIN g.nodes
    THEN Graph(g.nodes, g.entry_point, TRUE)
    ELSE Graph([g.nodes EXCEPT ![source].edges = Append(@, Edge(source, target, condition))],
               g.entry_point, FALSE)

add_edge(g, source, target, condition) ==
    IF source \notin DOMAIN g.nodes \/ target \notin DOMAIN g.nodes
    THEN Graph(g.nodes, g.entry_point, TRUE)
    ELSE Graph([g.nodes EXCEPT ![source].edges = Append(@, Edge(source, target, condition))],
               g.entry_point, FALSE)

\* f"{source}_router"
RouterName(source) ==
    CASE source = "A" -> "A_router"
      [] source = "B" -> "B_router"
      [] source = "C" -> "C_router"
      [] source = "D" -> "D_router"
      [] source = "E" -> "E_router"
      [] OTHER        -> "other_router"

\* the loop of add_conditional_edges over routes.items(), from entry i on;
\* routes is the dict as a sequence of <<route_key, target>> in insertion order
RECURSIVE AddRoutes(_, _, _, _, _)
AddRoutes(g, router_name, router, routes, i) ==
    IF i > Len(routes) THEN g
    ELSE IF routes[i][2] \notin DOMAIN g.nodes
         THEN Graph(g.nodes, g.entry_point, TRUE)
         ELSE AddRoutes(add_edge(g, router_name, routes[i][2],
                                 RouteCondition(router, routes[i][1])),
                        router_name, router, routes, i + 1)

add_conditional_edges(g, source, router, routes) ==
    IF source \notin DOMAIN g.nodes
    THEN Graph(g.nodes, g.entry_point, TRUE)
    ELSE LET g1 == add_node(g, RouterName(source), "router", None, router)
         IN  IF g1.raised THEN g1
             ELSE AddRoutes(add_edge(g1, source, RouterName(source), NoCondition),
                            RouterName(source), router, routes, 1)

set_entry_point(g, node_name) ==
    IF node_name \notin DOMAIN g.nodes
    THEN Graph(g.nodes, g.entry_point, TRUE)
    ELSE Graph(g.nodes, node_name, FALSE)

\* ------------------------------------------------------- _get_next_node
OverrideSet(s) == "next_agent" \in DOMAIN s /\ Truthy(s["next_agent"])

\* index of the first edge whose condition raises or holds (0: none)
RECURSIVE FirstEdge(_, _, _)
FirstEdge(edges, s, i) ==
    IF i > Len(edges) THEN 0
    ELSE IF ConditionRaises(edges[i].condition, s) THEN i
         ELSE IF should_traverse(edges[i], s) THEN i
              ELSE FirstEdge(edges, s, i + 1)

IsRouter(node) == node.type = "router" /\ node.router_func # None

\* _get_next_node raises when the router function or an edge condition does
GetNextRaises(node, s) ==
    /\ ~OverrideSet(s)
    /\ IF IsRouter(node)
       THEN RouterRaises(node.router_func, s)
       ELSE LET i == FirstEdge(node.edges, s, 1)
            IN  i # 0 /\ ConditionRaises(node.edges[i].condition, s)

\* (mutant) routing that lets the record's active_agent decide before the edges
GetNextNodeByActiveAgent(node, s) ==
    IF OverrideSet(s)
    THEN IF s["next_agent"] = Done THEN END ELSE s["next_agent"]
    ELSE IF Truthy(Get(s, "active_agent", None)) /\ s["active_agent"] # node.name
         THEN s["active_agent"]
         ELSE IF IsRouter(node)
              THEN RouterEval(node.router_func, s)
              ELSE LET i == FirstEdge(node.edges, s, 1)
                   IN  IF i = 0 THEN None ELSE node.edges[i].target

\* the value _get_next_node returns (None: no valid edge)
GetNextNode(node, s) ==
    IF OverrideSet(s)
    THEN IF s["next_agent"] = Done THEN END ELSE s["next_agent"]
    ELSE IF IsRouter(node)
         THEN RouterEval(node.router_func, s)
         ELSE LET i == FirstEdge(node.edges, s, 1)
              IN  IF i = 0 THEN None ELSE node.edges[i].target

\* (mutant) _get_next_node without state["next_agent"] = None
GetNextStateKeepsOverride(node, s) == s

\* the Work Record after _get_next_node: the override is cleared
GetNextState(node, s) ==
    IF OverrideSet(s) THEN Update(s, [next_agent |-> None]) ELSE s

\* no override is set and no outgoing edge of the node has a true condition
NoMatch(node, s) ==
    /\ ~OverrideSet(s)
    /\ ~GetNextRaises(node, s)
    /\ \A i \in 1..Len(node.edges) : ~should_traverse(node.edges[i], s)


\* -------------------------------------------------- OrchestratorGraph.execute
\* what execute() does not write: the graph, the agents, the caller's record,
\* and the registry and the service around the engine
graph_vars == <<nodes, entry_point, behaviour, caller_state, registry_vars, log,
                service_vars, aux_vars>>

\* (mutant) an execute() that does not look at the entry point
ExecuteWithoutEntryCheck ==
    /\ pc = "idle"
    /\ state' = Update(caller_state,
                       [status |-> "executing", completed_agents |-> <<>>,
                        errors |-> <<>>, error_count |-> 0])
    /\ current' = Get(caller_state, "active_agent", entry_point)
    /\ pc' = "loop"
    /\ UNCHANGED <<graph_vars, ran, steps, no_match>>

\* execute() up to the while loop: raises ValueError without an entry point,
\* else copies the caller's record and initialises the execution metadata
Execute ==
    /\ pc = "idle"
    /\ IF ~Truthy(entry_point)
       THEN /\ pc' = "raised"
            /\ UNCHANGED <<state, current>>
       ELSE /\ state' = Update(caller_state,
                               [status |-> "executing", completed_agents |-> <<>>,
                                errors |-> <<>>, error_count |-> 0])
            /\ current' = Get(caller_state, "active_agent", entry_point)
            /\ pc' = "loop"
    /\ UNCHANGED <<graph_vars, ran, steps, no_match>>

\* while current_node_name != "END": the loop ends
ExitLoop ==
    /\ pc = "loop"
    /\ current = END
    /\ pc' = "final"
    /\ UNCHANGED <<graph_vars, state, current, ran, steps, no_match>>

\* (mutant) the unknown-node branch without state["status"] = "failed"
NodeNotFoundKeepsStatus ==
    /\ pc = "loop"
    /\ current # END
    /\ current \notin DOMAIN nodes
    /\ state' = Update(state,
                       [error_count |-> Get(state, "error_count", 0) + 1,
                        error_messages |-> Append(Get(state, "error_messages", <<>>),
                                                  [kind |-> "node_not_found",
                                                   name |-> current,
                                                   text |-> "not found"])])
    /\ pc' = "final"
    /\ UNCHANGED <<graph_vars, current, ran, steps, no_match>>

\* if current_node_name not in self.nodes: ... break
NodeNotFound ==
    /\ pc = "loop"
    /\ current # END
    /\ current \notin DOMAIN nodes
    /\ state' = Update(state,
                       [status |-> "failed",
                        error_count |-> Get(state, "error_count", 0) + 1,
                        error_messages |-> Append(Get(state, "error_messages", <<>>),
                                                  [kind |-> "node_not_found",
                                                   name |-> current,
                                                   text |-> "not found"])])
    /\ pc' = "final"
    /\ UNCHANGED <<graph_vars, current, ran, steps, no_match>>

IsAgentNode(node) == node.type = "agent" /\ node.agent # None

\* an AGENT node: state["active_agent"] = node.name; state.update(agent.run(state));
\* an exception that leaves run() lands in the except branch of the loop
RunAgent ==
    /\ pc = "loop"
    /\ current # END
    /\ current \in DOMAIN nodes
    /\ IsAgentNode(nodes[current])
    /\ steps < MaxSteps
    /\ LET node == nodes[current]
           s1 == Update(state, [active_agent |-> node.name])
           s2 == Update(s1, [status |-> "failed",
                             error_count |-> Get(s1, "error_count", 0) + 1])
       IN  IF RunEscapes(behaviour[node.agent], s1)
           THEN /\ state' = s2
                /\ pc' = IF s2["error_count"] < Get(s2, "max_retries", DefaultMaxRetries)
                         THEN "loop" ELSE "final"
           ELSE /\ state' = Update(s1, Run(node.agent, behaviour[node.agent], s1))
                /\ pc' = "route"
    /\ ran' = Append(ran, nodes[current].agent)
    /\ steps' = steps + 1
    /\ UNCHANGED <<graph_vars, current, no_match>>

\* (mutant) a router visit that records the router as the active agent
VisitRouterSetsActiveAgent ==
    /\ pc = "loop"
    /\ current # END
    /\ current \in DOMAIN nodes
    /\ ~IsAgentNode(nodes[current])
    /\ steps < MaxSteps
    /\ state' = Update(state, [active_agent |-> current])
    /\ steps' = steps + 1
    /\ pc' = "route"
    /\ UNCHANGED <<graph_vars, current, ran, no_match>>

\* a ROUTER node (or a node without an agent): the record is not touched
VisitRouter ==
    /\ pc = "loop"
    /\ current # END
    /\ current \in DOMAIN nodes
    /\ ~IsAgentNode(nodes[current])
    /\ steps < MaxSteps
    /\ steps' = steps + 1
    /\ pc' = "route"
    /\ UNCHANGED <<graph_vars, state, current, ran, no_match>>

\* next_node = self._get_next_node(node, state) returned: break on None,
\* else map "Done" to "END" and move on
Route ==
    /\ pc = "route"
    /\ ~GetNextRaises(nodes[current], state)
    /\ LET next_node == GetNextNode(nodes[current], state)
       IN  /\ state' = GetNextState(nodes[current], state)
           /\ IF next_node = None
              THEN /\ pc' = "final"
                   /\ current' = current
              ELSE /\ pc' = "loop"
                   /\ current' = IF next_node = Done THEN END ELSE next_node
    /\ no_match' = (no_match \/ NoMatch(nodes[current], state))
    /\ UNCHANGED <<graph_vars, ran, steps>>

\* except Exception: status failed, error_count + 1, retry the node or break
RouteRaised ==
    /\ pc = "route"
    /\ GetNextRaises(nodes[current], state)
    /\ LET s1 == Update(state, [status |-> "failed",
                                error_count |-> Get(state, "error_count", 0) + 1])
       IN  /\ state' = s1
           /\ pc' = IF s1["error_count"] < Get(s1, "max_retries", DefaultMaxRetries)
                    THEN "loop" ELSE "final"
    /\ UNCHANGED <<graph_vars, current, ran, steps, no_match>>

\* after the loop: "executing" becomes "completed"; return state
Finalize ==
    /\ pc = "final"
    /\ state' = IF state["status"] = "executing"
                THEN Update(state, [status |-> "completed"])
                ELSE state
    /\ pc' = "done"
    /\ UNCHANGED <<graph_vars, current, ran, steps, no_match>>

Next ==
    \/ Execute
    \/ ExitLoop
    \/ NodeNotFound
    \/ RunAgent
    \/ VisitRouter
    \/ Route
    \/ RouteRaised
    \/ Finalize


\* --------------------------------------------------------- AgentRegistry
MaxCalls == 4             \* registry calls in one run of the registry model

\* the classes offered to register(): two BaseAgent subclasses and one class
\* that is not a BaseAgent
Classes == {"AgentX", "AgentY", "NotAgent"}

RegistryNames == {"A", "B"}

\* issubclass(agent_class, BaseAgent)
IsAgentClass(cls) == cls # "NotAgent"

\* name in self._agents
Registered(ags, name) == \E i \in 1..Len(ags) : ags[i].name = name

\* self._agents[name]
ClassOf(ags, name) == ags[CHOOSE i \in 1..Len(ags) : ags[i].name = name].cls

\* list(self._agents.keys()): the names in insertion order
AgentNames(ags) == [i \in 1..Len(ags) |-> ags[i].name]

\* one entry of the call history; inst = 0 stands for a None result
Call(op, name, cls, raised, inst, constructed, names) ==
    [op |-> op, name |-> name, cls |-> cls, raised |-> raised, inst |-> inst,
     constructed |-> constructed, names |-> names]

\* AgentRegistry.__init__, and no call made yet
RegistryIdle ==
    /\ agents = <<>>
    /\ instances = EmptyDict
    /\ created = 0
    /\ log = <<>>

\* (mutant) a register() that rebinds a name that is already bound
registerRebinds(name, cls) ==
    /\ Len(log) < MaxCalls
    /\ IF ~IsAgentClass(cls)
       THEN /\ log' = Append(log, Call("register", name, cls, TRUE, 0, FALSE, <<>>))
            /\ UNCHANGED agents
       ELSE /\ agents' = Append(SelectSeq(agents, LAMBDA b : b.name # name),
                                [name |-> name, cls |-> cls])
            /\ log' = Append(log, Call("register", name, cls, FALSE, 0, FALSE, <<>>))
    /\ UNCHANGED <<instances, created, nodes, entry_point, engine_vars, aux_vars, service_vars>>

\* AgentRegistry.register
register(name, cls) ==
    /\ Len(log) < MaxCalls
    /\ IF Registered(agents, name) \/ ~IsAgentClass(cls)
       THEN /\ log' = Append(log, Call("register", name, cls, TRUE, 0, FALSE, <<>>))
            /\ UNCHANGED agents
       ELSE /\ agents' = Append(agents, [name |-> name, cls |-> cls])
            /\ log' = Append(log, Call("register", name, cls, FALSE, 0, FALSE, <<>>))
    /\ UNCHANGED <<instances, created, nodes, entry_point, engine_vars, aux_vars, service_vars>>

\* (mutant) a lookup that constructs a new instance at every call
InstantiateEveryCall(ags, insts, cnt, name) ==
    IF ~Registered(ags, name)
    THEN [instances |-> insts, created |-> cnt, inst |-> 0, constructed |-> FALSE]
    ELSE [instances |-> (name :> [id |-> cnt + 1, cls |-> ClassOf(ags, name)]) @@ insts,
          created |-> cnt + 1, inst |-> cnt + 1, constructed |-> TRUE]

\* the body of get_agent_instance on a registry value: the cache, the number
\* of constructions and the instance returned (0: None)
Instantiate(ags, insts, cnt, name) ==
    IF ~Registered(ags, name)
    THEN [instances |-> insts, created |-> cnt, inst |-> 0, constructed |-> FALSE]
    ELSE IF name \notin DOMAIN insts
         THEN [instances |-> (name :> [id |-> cnt + 1, cls |-> ClassOf(ags, name)]) @@ insts,
               created |-> cnt + 1, inst |-> cnt + 1, constructed |-> TRUE]
         ELSE [instances |-> insts, created |-> cnt, inst |-> insts[name].id,
               constructed |-> FALSE]

\* AgentRegistry.get_agent_instance
get_agent_instance(name) ==
    /\ Len(log) < MaxCalls
    /\ LET r == Instantiate(agents, instances, created, name)
       IN  /\ instances' = r.instances
           /\ created' = r.created
           /\ log' = Append(log, Call("get", name, None, FALSE, r.inst, r.constructed, <<>>))
    /\ UNCHANGED <<agents, nodes, entry_point, engine_vars, aux_vars, service_vars>>

\* AgentRegistry.list_agents
list_agents ==
    /\ Len(log) < MaxCalls
    /\ log' = Append(log, Call("list", None, None, FALSE, 0, FALSE, AgentNames(agents)))
    /\ UNCHANGED <<registry_vars, nodes, entry_point, engine_vars, aux_vars, service_vars>>

\* (mutant) a clear_instances that leaves the cache as it is
clear_instancesKeepsCache ==
    /\ Len(log) < MaxCalls
    /\ log' = Append(log, Call("clear", None, None, FALSE, 0, FALSE, <<>>))
    /\ UNCHANGED <<registry_vars, nodes, entry_point, engine_vars, aux_vars, service_vars>>

\* AgentRegistry.clear_instances
clear_instances ==
    /\ Len(log) < MaxCalls
    /\ instances' = EmptyDict
    /\ log' = Append(log, Call("clear", None, None, FALSE, 0, FALSE, <<>>))
    /\ UNCHANGED <<agents, created, nodes, entry_point, engine_vars, aux_vars, service_vars>>

\* ------------------------------------------------------------- workflows
\* (mutant) a builder that takes its agent list from the registry
WorkflowAgentsFromRegistry(ags) == AgentNames(ags)

\* the `agents` list of build_development_workflow (two names stand for the nine)
WorkflowAgents(ags) == <<"A", "B">>

\* the route table {agent: agent for agent in agents + ["END"]}
WorkflowRoutes(names) ==
    [i \in 1..(Len(names) + 1) |-> IF i <= Len(names) THEN <<names[i], names[i]>>
                                                       ELSE <<END, END>>]

\* for agent_name in agents: add a node when the registry has an instance
RECURSIVE WorkflowNodes(_, _, _, _)
WorkflowNodes(g, ags, names, i) ==
    IF i > Len(names) \/ g.raised THEN g
    ELSE WorkflowNodes(IF Registered(ags, names[i])
                       THEN add_node(g, names[i], "agent", names[i], None)
                       ELSE g,
                       ags, names, i + 1)

\* for agent_name in agents: add_conditional_edges(agent_name, router, routes)
RECURSIVE WorkflowEdges(_, _, _)
WorkflowEdges(g, names, i) ==
    IF i > Len(names) \/ g.raised THEN g
    ELSE WorkflowEdges(add_conditional_edges(g, names[i], "default", WorkflowRoutes(names)),
                       names, i + 1)

\* build_development_workflow on a registry value; an exception of a
\* construction call ends the build (raised)
BuildDevelopmentWorkflow(ags) ==
    LET names == WorkflowAgents(ags)
        g1 == WorkflowNodes(NewGraph, ags, names, 1)
        g2 == IF g1.raised THEN g1 ELSE set_entry_point(g1, "A")
    IN  IF g2.raised THEN g2 ELSE WorkflowEdges(g2, names, 1)

\* the registry after the get_agent_instance calls of the builder
RECURSIVE WorkflowInstances(_, _, _, _, _)
WorkflowInstances(ags, insts, cnt, names, i) ==
    IF i > Len(names) THEN [instances |-> insts, created |-> cnt]
    ELSE LET r == Instantiate(ags, insts, cnt, names[i])
         IN  WorkflowInstances(ags, r.instances, r.created, names, i + 1)

\* build_development_workflow; the graph is kept only when the build returns
build_development_workflow ==
    /\ Len(log) < MaxCalls
    /\ LET g == BuildDevelopmentWorkflow(agents)
           r == WorkflowInstances(agents, instances, created, WorkflowAgents(agents), 1)
       IN  /\ IF g.raised
              THEN UNCHANGED <<nodes, entry_point>>
              ELSE /\ nodes' = g.nodes
                   /\ entry_point' = g.entry_point
           /\ instances' = r.instances
           /\ created' = r.created
           /\ log' = Append(log, Call("build", None, None, g.raised, 0,
                                      r.created # created, <<>>))
    /\ UNCHANGED <<agents, engine_vars, aux_vars, service_vars>>

\* ---------------------------------------------------------- AgentService
MaxExecutions == 3        \* execute_task calls in one run of the service model

\* what the classifier leaves in task_type; "precondition_failed" is an empty
\* user_request: run() absorbs it and task_type keeps its initial value
ClassifierOutcomes ==
    {"FULLSTACK_DEVELOPMENT", "CONVERSATIONAL_CHAT", "CODE_REVIEW", "precondition_failed"}

TaskTypeAfter(cls_out) ==
    IF cls_out = "precondition_failed" THEN "CONVERSATIONAL_CHAT" ELSE cls_out

\* create_workflow_for_task: None for a task type without builder, else the
\* builder's graph, or the builder's exception
create_workflow_for_task(task_type, build) ==
    IF task_type \notin {"FULLSTACK_DEVELOPMENT", "CONVERSATIONAL_CHAT"} THEN "none"
    ELSE build

\* what workflow.execute does: raise, or return a record with this status
ExecuteOutcomes == {"raises", "completed", "failed", "planning"}

\* the initial_state of execute_task after the classifier's delta was merged
InitialTaskState(cls_out) ==
    [status |-> IF cls_out = "precondition_failed" THEN "initializing" ELSE "planning",
     task_type |-> TaskTypeAfter(cls_out),
     errors |-> <<>>]

NoReturn ==
    [execution_id |-> 0, status |-> None, error |-> None, raised |-> FALSE,
     workflow |-> None, exec_out |-> None]

\* AgentService.__init__, and no call made yet
ServiceIdle ==
    /\ active_executions = EmptyDict
    /\ returned = NoReturn

\* the text of the exception execute_task catches (None: no exception)
TaskError(workflow, exec_out) ==
    CASE workflow = "none" -> "No workflow available"
      [] workflow = "raises" -> "builder raised"
      [] exec_out = "raises" -> "Workflow failed"
      [] OTHER -> None

\* (mutant) an except branch that returns without touching the stored state
TaskFailureKeepsState(execs, id, st, text) ==
    [executions |-> (id :> [state |-> st, completed |-> FALSE]) @@ execs,
     raised |-> FALSE]

\* the except branch of execute_task: the stored state gets status failed and
\* one more entry in errors (a KeyError when the state has no errors list)
TaskFailure(execs, id, st, text) ==
    IF "errors" \notin DOMAIN st
    THEN [executions |-> (id :> [state |-> Update(st, [status |-> "failed"]),
                                 completed |-> FALSE]) @@ execs,
          raised |-> TRUE]
    ELSE [executions |-> (id :> [state |-> Update(st, [status |-> "failed",
                                                       errors |-> Append(st["errors"], text)]),
                                 completed |-> FALSE]) @@ execs,
          raised |-> FALSE]

\* the try branch: the stored state becomes the record execute() returned
\* (whose errors list execute() reset)
TaskSuccess(execs, id, st, status) ==
    (id :> [state |-> Update(st, [status |-> status, errors |-> <<>>]),
            completed |-> TRUE]) @@ execs

\* AgentService.execute_task
execute_task(cls_out, build, exec_out) ==
    /\ Cardinality(DOMAIN active_executions) < MaxExecutions
    /\ LET id == Cardinality(DOMAIN active_executions) + 1
           st == InitialTaskState(cls_out)
           workflow == create_workflow_for_task(st["task_type"], build)
           text == TaskError(workflow, exec_out)
           f == TaskFailure(active_executions, id, st, text)
       IN  IF text # None
           THEN /\ active_executions' = f.executions
                /\ returned' = [execution_id |-> id, status |-> "failed", error |-> text,
                                raised |-> f.raised, workflow |-> workflow,
                                exec_out |-> exec_out]
           ELSE /\ active_executions' = TaskSuccess(active_executions, id, st, exec_out)
                /\ returned' = [execution_id |-> id, status |-> exec_out, error |-> None,
                                raised |-> FALSE, workflow |-> workflow,
                                exec_out |-> exec_out]
    /\ UNCHANGED <<nodes, entry_point, engine_vars, aux_vars, registry_vars, log>>

\* AgentService.get_execution_status leaves everything as it is
get_execution_status(id) ==
    /\ id \in DOMAIN active_executions
    /\ returned' = [execution_id |-> id, status |-> active_executions[id].state["status"],
                    error |-> None, raised |-> FALSE, workflow |-> None, exec_out |-> None]
    /\ UNCHANGED <<nodes, entry_point, engine_vars, aux_vars, registry_vars, log, active_executions>>

\* -------------------------------------------- the models around the engine
\* no execute() call is in progress and no graph was handed to the engine
EngineIdle ==
    /\ behaviour = EmptyDict
    /\ caller_state = EmptyDict
    /\ state = EmptyDict
    /\ current = None
    /\ pc = "idle"
    /\ ran = <<>>
    /\ steps = 0
    /\ no_match = FALSE

NoGraph ==
    /\ nodes = NewGraph.nodes
    /\ entry_point = NewGraph.entry_point

\* ---------------------------------------- core BaseAgent (core/agents/base.py)
MaxCoreCalls == 3         \* calls of core BaseAgent.execute in one run
MaxCoreRetries == 4       \* largest max_retries and error_count of a core record

CoreErrorThreshold == 3   \* the literal in `if error_count < 3`

CoreAgents == {"EchoAgent", "TestAgent1"}

\* what _execute_impl does: hand_off_to(next), complete_and_stop(), or raise
CoreOutcomes == {"hand_off", "complete", "raise"}

\* the Work Record a host hands to a core agent; max_retries = 0 stands for a
\* record without that key (the records the orchestration router builds)
CoreRecord(has_messages, error_count, max_retries) ==
    (IF has_messages THEN [messages |-> <<>>] ELSE EmptyDict)
    @@ (IF max_retries = 0 THEN EmptyDict ELSE [max_retries |-> max_retries])
    @@ [error_count |-> error_count, error_messages |-> <<>>,
        active_agent |-> "EchoAgent", project_status |-> "initializing"]

\* no call of core BaseAgent.execute made yet
CoreAgentIdle ==
    /\ core_state = EmptyDict
    /\ core_status = EmptyDict
    /\ core_delta = EmptyDict
    /\ core_calls = 0

\* _add_system_message: state["messages"].append(message), in place
AddSystemMessage(name, s) ==
    Update(s, [messages |-> Append(s["messages"], [agent_name |-> name,
                                                    content |-> "activated"])])

\* the try block of execute raises: state["messages"] is missing, or
\* _execute_impl raises
CoreRaises(s, outcome) == "messages" \notin DOMAIN s \/ outcome = "raise"

\* hand_off_to / complete_and_stop
CoreResult(outcome) ==
    IF outcome = "hand_off" THEN [active_agent |-> "TestAgent1"]
    ELSE [active_agent |-> Done, project_status |-> "completed"]

\* the list _handle_error appends to: state.get("error_messages", []) itself
HandleErrorMessages(name, s) ==
    Append(Get(s, "error_messages", <<>>), [name |-> name, text |-> "error"])

\* BaseAgent._handle_error: the delta it returns
HandleError(name, s) ==
    LET error_count == Get(s, "error_count", 0) + 1
    IN  IF error_count < CoreErrorThreshold
        THEN [error_count |-> error_count,
              error_messages |-> HandleErrorMessages(name, s),
              active_agent |-> name]
        ELSE [error_count |-> error_count,
              error_messages |-> HandleErrorMessages(name, s),
              project_status |-> "error_requires_human_input",
              active_agent |-> Done]

\* what _handle_error leaves in the record it was given: the list of the
\* record, when the record has one, was appended to in place
HandleErrorRecord(name, s) ==
    IF "error_messages" \in DOMAIN s
    THEN Update(s, [error_messages |-> HandleErrorMessages(name, s)])
    ELSE s

\* core BaseAgent.execute: one call, with what it returns and what it leaves
\* in the record and on the agent
CoreExecute(name, outcome) ==
    /\ core_calls < MaxCoreCalls
    /\ LET s1 == IF "messages" \in DOMAIN core_state
                 THEN AddSystemMessage(name, core_state) ELSE core_state
       IN  IF CoreRaises(core_state, outcome)
           THEN /\ core_state' = HandleErrorRecord(name, s1)
                /\ core_status' = Update(core_status, name :> "failed")
                /\ core_delta' = [agent |-> name, failed |-> TRUE,
                                  updates |-> HandleError(name, s1)]
           ELSE /\ core_state' = s1
                /\ core_status' = Update(core_status, name :> "completed")
                /\ core_delta' = [agent |-> name, failed |-> FALSE,
                                  updates |-> CoreResult(outcome)]
    /\ core_calls' = core_calls + 1
    /\ UNCHANGED <<base_vars, socket_vars, core_socket_vars, concurrent_vars>>

\* ------------------- services ConnectionManager (services/websocket_manager.py)
MaxSocketCalls == 3       \* connect / disconnect calls in one run

Sockets == {"ws1", "ws2"}
Projects == {"p1", "p2"}

\* ConnectionManager.__init__
SocketsIdle ==
    /\ active_connections = EmptyDict
    /\ connection_info = EmptyDict
    /\ socket_log = <<>>

\* a dict without one key (del d[k])
Del(d, k) == [x \in DOMAIN d \ {k} |-> d[x]]

\* ConnectionManager.disconnect as a function of the two dicts
Disconnected(active, info, websocket) ==
    IF websocket \in DOMAIN info
    THEN LET project_id == info[websocket].project_id
             discarded == IF project_id \in DOMAIN active
                          THEN Update(active,
                                      project_id :> (active[project_id] \ {websocket}))
                          ELSE active
         IN  [active |-> IF project_id \in DOMAIN discarded
                            /\ discarded[project_id] = {}
                         THEN Del(discarded, project_id) ELSE discarded,
              info |-> Del(info, websocket)]
    ELSE [active |-> active, info |-> info]

\* ConnectionManager.connect: accept() returns or raises; the socket is
\* registered; the welcome message is sent, and a failed send disconnects
connect(websocket, project_id, accepted, sent) ==
    /\ Len(socket_log) < MaxSocketCalls
    /\ LET added == Update(active_connections,
                           project_id :> (Get(active_connections, project_id, {})
                                            \cup {websocket}))
           info == Update(connection_info, websocket :> [project_id |-> project_id])
           after == IF sent THEN [active |-> added, info |-> info]
                    ELSE Disconnected(added, info, websocket)
       IN  IF accepted
           THEN /\ active_connections' = after.active
                /\ connection_info' = after.info
           ELSE UNCHANGED <<active_connections, connection_info>>
    /\ socket_log' = Append(socket_log, [op |-> "connect", websocket |-> websocket,
                                         project_id |-> project_id,
                                         raised |-> ~accepted])
    /\ UNCHANGED <<base_vars, core_vars, core_socket_vars, concurrent_vars>>

\* ConnectionManager.disconnect
disconnect(websocket) ==
    /\ Len(socket_log) < MaxSocketCalls
    /\ LET after == Disconnected(active_connections, connection_info, websocket)
       IN  /\ active_connections' = after.active
           /\ connection_info' = after.info
    /\ socket_log' = Append(socket_log, [op |-> "disconnect", websocket |-> websocket,
                                         project_id |-> None, raised |-> FALSE])
    /\ UNCHANGED <<base_vars, core_vars, core_socket_vars, concurrent_vars>>

\* ------------------------------- core ConnectionManager (core/websocket.py)
MaxCoreSocketCalls == 3   \* connect / disconnect calls in one run
MaxBroadcasts == 2        \* broadcast_to_project calls in one run

Broadcasters == 1..MaxBroadcasts

\* a broadcast_to_project call: where it stands (idle, sending: suspended in
\* `await connection.send_text`, done, raised), the position of its list
\* iterator, the connection being sent to and its local list `disconnected`
Broadcast(pc_, project_id, index, connection, disconnected) ==
    [pc |-> pc_, project_id |-> project_id, index |-> index,
     connection |-> connection, disconnected |-> disconnected]

\* ConnectionManager.__init__, and no call made yet
CoreSocketsIdle ==
    /\ core_connections = <<>>
    /\ project_connections = EmptyDict
    /\ broadcasts = [b \in Broadcasters |-> Broadcast("idle", None, 0, None, <<>>)]
    /\ core_socket_calls = 0

\* list.remove(x) on a list that holds x: the first occurrence goes
RemoveFirst(sq, x) ==
    LET i == CHOOSE j \in 1..Len(sq) : sq[j] = x /\ \A k \in 1..(j - 1) : sq[k] # x
    IN  SubSeq(sq, 1, i - 1) \o SubSeq(sq, i + 1, Len(sq))

\* ConnectionManager.disconnect as a function of the two collections:
\* active_connections.remove raises ValueError when the socket is not there
CoreDisconnected(active, projects, websocket) ==
    IF ~InSeq(websocket, active)
    THEN [active |-> active, projects |-> projects, raised |-> TRUE]
    ELSE [active |-> RemoveFirst(active, websocket),
          projects |-> [p \in DOMAIN projects |->
                          IF InSeq(websocket, projects[p])
                          THEN RemoveFirst(projects[p], websocket)
                          ELSE projects[p]],
          raised |-> FALSE]

\* for conn in disconnected: self.disconnect(conn), from entry i on
RECURSIVE CleanUp(_, _, _, _)
CleanUp(active, projects, disconnected, i) ==
    IF i > Len(disconnected)
    THEN [active |-> active, projects |-> projects, raised |-> FALSE]
    ELSE LET d == CoreDisconnected(active, projects, disconnected[i])
         IN  IF d.raised THEN d
             ELSE CleanUp(d.active, d.projects, disconnected, i + 1)

\* the for loop of broadcast_to_project up to its next suspension: the list
\* iterator yields the element at its position, if the list (as it is now)
\* has one, and the send starts; else the loop ends and the clean-up runs
NextSend(active, projects, br) ==
    IF br.index < Len(projects[br.project_id])
    THEN [active |-> active, projects |-> projects,
          br |-> Broadcast("sending", br.project_id, br.index + 1,
                           projects[br.project_id][br.index + 1], br.disconnected)]
    ELSE LET c == CleanUp(active, projects, br.disconnected, 1)
         IN  [active |-> c.active, projects |-> c.projects,
              br |-> Broadcast(IF c.raised THEN "raised" ELSE "done", br.project_id,
                               br.index, None, br.disconnected)]

\* ConnectionManager.connect (project_id None: no project given)
core_connect(websocket, project_id, accepted) ==
    /\ core_socket_calls < MaxCoreSocketCalls
    /\ IF accepted
       THEN /\ core_connections' = Append(core_connections, websocket)
            /\ project_connections' =
                 IF project_id = None THEN project_connections
                 ELSE Update(project_connections,
                             project_id :> Append(Get(project_connections, project_id, <<>>),
                                                  websocket))
       ELSE UNCHANGED <<core_connections, project_connections>>
    /\ core_socket_calls' = core_socket_calls + 1
    /\ UNCHANGED <<base_vars, core_vars, socket_vars, concurrent_vars, broadcasts>>

\* ConnectionManager.disconnect called by the endpoint of a socket that closed
core_disconnect(websocket) ==
    /\ core_socket_calls < MaxCoreSocketCalls
    /\ LET d == CoreDisconnected(core_connections, project_connections, websocket)
       IN  /\ core_connections' = d.active
           /\ project_connections' = d.projects
    /\ core_socket_calls' = core_socket_calls + 1
    /\ UNCHANGED <<base_vars, core_vars, socket_vars, concurrent_vars, broadcasts>>

\* broadcast_to_project up to its first suspension
broadcast_to_project(b, project_id) ==
    /\ broadcasts[b].pc = "idle"
    /\ IF project_id \notin DOMAIN project_connections
       THEN /\ broadcasts' = [broadcasts EXCEPT
                                ![b] = Broadcast("done", project_id, 0, None, <<>>)]
            /\ UNCHANGED <<core_connections, project_connections>>
       ELSE LET n == NextSend(core_connections, project_connections,
                              Broadcast("idle", project_id, 0, None, <<>>))
            IN  /\ broadcasts' = [broadcasts EXCEPT ![b] = n.br]
                /\ core_connections' = n.active
                /\ project_connections' = n.projects
    /\ UNCHANGED <<base_vars, core_vars, socket_vars, concurrent_vars, core_socket_calls>>

\* `await connection.send_text(message_str)` returns or raises, and the
\* broadcast goes on to its next suspension or to its end
send_text(b, failed) ==
    /\ broadcasts[b].pc = "sending"
    /\ LET br == broadcasts[b]
           n == NextSend(core_connections, project_connections,
                         Broadcast("sending", br.project_id, br.index, br.connection,
                                   IF failed THEN Append(br.disconnected, br.connection)
                                   ELSE br.disconnected))
       IN  /\ broadcasts' = [broadcasts EXCEPT ![b] = n.br]
           /\ core_connections' = n.active
           /\ project_connections' = n.projects
    /\ UNCHANGED <<base_vars, core_vars, socket_vars, concurrent_vars, core_socket_calls>>

\* ------------------- concurrent executions sharing the cached agent instances
MaxExecutes == 2          \* execute() calls in flight at once

Executors == 1..MaxExecutes

\* the list-valued fields of a Work Record
ListFields == {"messages", "agent_history", "error_messages", "completed_agents"}

\* One execute() call: initial_state is the caller's record as it was at the
\* call and caller what that dict object holds now; state, current and steps
\* are the locals of execute(); aliased names the list fields of `state` that
\* still hold the caller's list object (initial_state.copy() is shallow);
\* pc is idle, loop, running (suspended in the agent's awaits), route, final,
\* done or raised; overlapped records that a run() began while another
\* execution had the same agent instance running.
Execution(pc_, initial_state, caller, state_, current_, aliased, steps_, overlapped) ==
    [pc |-> pc_, initial_state |-> initial_state, caller |-> caller, state |-> state_,
     current |-> current_, aliased |-> aliased, steps |-> steps_,
     overlapped |-> overlapped]

\* an execute() call not yet made, on the caller's record cs
NewExecution(cs) == Execution("idle", cs, cs, EmptyDict, None, {}, 0, FALSE)

\* no concurrent execute() call is modelled
ConcurrentIdle ==
    /\ executions = EmptyDict
    /\ agent_state = EmptyDict

\* (mutant) a run() that appends to the record's agent_history list itself
RunAppendsInPlaceHistory(name, b, s) == {"agent_history"}

\* the lists of the record run() appends to without copying them first: none,
\* every list it extends is a .copy() of the record's list
RunAppendsInPlace(name, b, s) == {}

\* (mutant) a run() whose delta depends on the instance's lifecycle status
RunDeltaReadsLifecycle(name, b, s, lifecycle) ==
    IF lifecycle = "running" THEN Run(name, b, s) ELSE RunFailure(name, b, s)

\* the delta of run() as a function of what it can read: the record and the
\* agent instance; self.state is written, never read
RunDelta(name, b, s, lifecycle) == Run(name, b, s)

\* the record of the caller after a step that wrote `written` into state:
\* a list appended to in place is the caller's list where it is still shared
CallerAfter(x, written, in_place) ==
    [k \in DOMAIN x.caller |->
        IF k \in in_place /\ k \in x.aliased THEN written[k] ELSE x.caller[k]]

\* the except branch of the loop, which retries the node or leaves the loop
ExceptBranch(x, s) ==
    LET s1 == Update(s, [status |-> "failed",
                         error_count |-> Get(s, "error_count", 0) + 1])
    IN  [x EXCEPT !.state = s1,
                  !.pc = IF s1["error_count"] < Get(s1, "max_retries", DefaultMaxRetries)
                         THEN "loop" ELSE "final"]

\* execute() from one suspension point to the next, as a function of the
\* execution's own data and of the lifecycle status of the agent instance
Advance(x, lifecycle) ==
    CASE x.pc = "idle" ->
            IF ~Truthy(entry_point) THEN [x EXCEPT !.pc = "raised"]
            ELSE [x EXCEPT !.pc = "loop",
                           !.state = Update(x.caller,
                                            [status |-> "executing",
                                             completed_agents |-> <<>>,
                                             errors |-> <<>>, error_count |-> 0]),
                           !.current = Get(x.caller, "active_agent", entry_point),
                           !.aliased = (ListFields \cap DOMAIN x.caller)
                                         \ {"completed_agents"}]
      [] x.pc = "loop" ->
            IF x.current = END THEN [x EXCEPT !.pc = "final"]
            ELSE IF x.current \notin DOMAIN nodes
            THEN [x EXCEPT
                    !.pc = "final",
                    !.state = Update(x.state,
                        [status |-> "failed",
                         error_count |-> Get(x.state, "error_count", 0) + 1,
                         error_messages |->
                            Append(Get(x.state, "error_messages", <<>>),
                                   [kind |-> "node_not_found", name |-> x.current,
                                    text |-> "not found"])]),
                    !.aliased = x.aliased \ {"error_messages"}]
            ELSE IF IsAgentNode(nodes[x.current])
            THEN [x EXCEPT !.pc = "running",
                           !.state = Update(x.state,
                                            [active_agent |-> nodes[x.current].name]),
                           !.steps = x.steps + 1,
                           !.overlapped = x.overlapped \/ lifecycle = "running"]
            ELSE [x EXCEPT !.pc = "route", !.steps = x.steps + 1]
      [] x.pc = "running" ->
            LET name == nodes[x.current].agent
                b == behaviour[name]
            IN  IF RunEscapes(b, x.state) THEN ExceptBranch(x, x.state)
                ELSE LET delta == RunDelta(name, b, x.state, lifecycle)
                         in_place == RunAppendsInPlace(name, b, x.state)
                         written == Update(x.state, delta)
                     IN  [x EXCEPT !.pc = "route",
                                   !.state = written,
                                   !.caller = CallerAfter(x, written, in_place),
                                   !.aliased = x.aliased \ (DOMAIN delta \ in_place)]
      [] x.pc = "route" ->
            IF GetNextRaises(nodes[x.current], x.state)
            THEN ExceptBranch(x, x.state)
            ELSE LET next_node == GetNextNode(nodes[x.current], x.state)
                 IN  [x EXCEPT !.state = GetNextState(nodes[x.current], x.state),
                               !.pc = IF next_node = None THEN "final" ELSE "loop",
                               !.current = IF next_node = None THEN x.current
                                           ELSE IF next_node = Done THEN END
                                           ELSE next_node]
      [] x.pc = "final" ->
            [x EXCEPT !.pc = "done",
                      !.state = IF x.state["status"] = "executing"
                                THEN Update(x.state, [status |-> "completed"])
                                ELSE x.state]
      [] OTHER -> x

\* the agent instance whose run() the execution is in, or is about to call
AgentOf(x) == nodes[x.current].agent

\* the execution stands at an AGENT node at the top of the loop
AtAgentNode(x) ==
    /\ x.pc = "loop"
    /\ x.current # END
    /\ x.current \in DOMAIN nodes
    /\ IsAgentNode(nodes[x.current])

\* self.state when run() is left: COMPLETED or FAILED by result.success,
\* FAILED from the except branch
LifecycleAfterRun(b, s) ==
    IF Throws(b, s) \/ ~Success(b) THEN "failed" ELSE "completed"

\* execute() from the call to the loop, or the ValueError
ConcurrentExecute(e) ==
    /\ executions[e].pc = "idle"
    /\ executions' = [executions EXCEPT ![e] = Advance(@, None)]
    /\ UNCHANGED <<base_vars, core_vars, socket_vars, core_socket_vars, agent_state>>

\* the loop at a node without an agent to run: the terminal node, an unknown
\* node or a router node
ConcurrentVisit(e) ==
    /\ executions[e].pc = "loop"
    /\ ~AtAgentNode(executions[e])
    /\ \/ executions[e].current = END
       \/ executions[e].current \notin DOMAIN nodes
       \/ executions[e].steps < MaxSteps
    /\ executions' = [executions EXCEPT ![e] = Advance(@, None)]
    /\ UNCHANGED <<base_vars, core_vars, socket_vars, core_socket_vars, agent_state>>

\* agent.run up to its awaits: self.state = AgentState.RUNNING
ConcurrentRunBegins(e) ==
    /\ AtAgentNode(executions[e])
    /\ executions[e].steps < MaxSteps
    /\ LET name == AgentOf(executions[e])
       IN  /\ executions' = [executions EXCEPT ![e] = Advance(@, agent_state[name])]
           /\ agent_state' = [agent_state EXCEPT ![name] = "running"]
    /\ UNCHANGED <<base_vars, core_vars, socket_vars, core_socket_vars>>

\* validate_preconditions and execute are over: self.state is set, the delta
\* is built and merged
ConcurrentRunEnds(e) ==
    /\ executions[e].pc = "running"
    /\ LET name == AgentOf(executions[e])
           b == behaviour[name]
       IN  /\ executions' = [executions EXCEPT ![e] = Advance(@, agent_state[name])]
           /\ agent_state' = IF RunEscapes(b, executions[e].state) THEN agent_state
                             ELSE [agent_state EXCEPT
                                     ![name] = LifecycleAfterRun(b, executions[e].state)]
    /\ UNCHANGED <<base_vars, core_vars, socket_vars, core_socket_vars>>

\* _get_next_node and what follows it, the except branch included
ConcurrentRoute(e) ==
    /\ executions[e].pc = "route"
    /\ executions' = [executions EXCEPT ![e] = Advance(@, None)]
    /\ UNCHANGED <<base_vars, core_vars, socket_vars, core_socket_vars, agent_state>>

\* after the loop
ConcurrentFinalize(e) ==
    /\ executions[e].pc = "final"
    /\ executions' = [executions EXCEPT ![e] = Advance(@, None)]
    /\ UNCHANGED <<base_vars, core_vars, socket_vars, core_socket_vars, agent_state>>

\* the same execute() call with no other execution around: every agent
\* instance is RUNNING from the start of its run() to the end of it
RECURSIVE RunAlone(_, _)
RunAlone(x, fuel) ==
    IF x.pc \in {"done", "raised"} \/ fuel = 0 THEN x
    ELSE RunAlone(Advance(x, IF x.pc = "running" THEN "running" ELSE None), fuel - 1)

\* ---- the components beside the engine, before any call on them
AuxIdle == CoreAgentIdle /\ SocketsIdle /\ CoreSocketsIdle /\ ConcurrentIdle

\* the engine, its registry and its service, before any call on them
BaseIdle == EngineIdle /\ NoGraph /\ RegistryIdle /\ ServiceIdle

\* ---- the core agent: calls of execute on one Work Record
InitCore ==
    /\ BaseIdle
    /\ \E has_messages \in BOOLEAN, error_count \in 0..MaxCoreRetries,
          max_retries \in 0..MaxCoreRetries :
            core_state = CoreRecord(has_messages, error_count, max_retries)
    /\ core_status = [a \in CoreAgents |-> "idle"]
    /\ core_delta = EmptyDict
    /\ core_calls = 0
    /\ SocketsIdle
    /\ CoreSocketsIdle
    /\ ConcurrentIdle

NextCore == \E name \in CoreAgents, outcome \in CoreOutcomes : CoreExecute(name, outcome)

SpecCore == InitCore /\ [][NextCore]_vars

\* ---- the socket manager of the services: any sequence of connect and
\* disconnect calls
InitSockets == BaseIdle /\ AuxIdle

NextSockets ==
    \/ \E websocket \in Sockets, project_id \in Projects, accepted, sent \in BOOLEAN :
          connect(websocket, project_id, accepted, sent)
    \/ \E websocket \in Sockets : disconnect(websocket)

SpecSockets == InitSockets /\ [][NextSockets]_vars

\* ---- the socket manager of the core: connects, disconnects and broadcasts
\* interleaved at the sends
InitCoreSockets == BaseIdle /\ AuxIdle

NextCoreSockets ==
    \/ \E websocket \in Sockets, project_id \in Projects \cup {None}, accepted \in BOOLEAN :
          core_connect(websocket, project_id, accepted)
    \/ \E websocket \in Sockets : core_disconnect(websocket)
    \/ \E b \in Broadcasters, project_id \in Projects : broadcast_to_project(b, project_id)
    \/ \E b \in Broadcasters, failed \in BOOLEAN : send_text(b, failed)

SpecCoreSockets == InitCoreSockets /\ [][NextCoreSockets]_vars

\* ---- the registry: register, look up, list, clear, build a workflow
InitRegistry == EngineIdle /\ NoGraph /\ RegistryIdle /\ ServiceIdle /\ AuxIdle

NextRegistry ==
    \/ \E name \in RegistryNames, cls \in Classes : register(name, cls)
    \/ \E name \in RegistryNames : get_agent_instance(name)
    \/ list_agents
    \/ clear_instances
    \/ build_development_workflow

SpecRegistry == InitRegistry /\ [][NextRegistry]_vars

\* ---- graph construction: any sequence of construction calls on a new graph
MaxBuildCalls == 3        \* construction calls on one graph

BuildNodeNames == {"A", "B", "A_router"}
BuildEndpoints == {"A", "B", END, Ghost}
BuildRouteTables ==
    {<<<<"B", "B">>, <<END, END>>>>,
     <<<<END, END>>, <<Ghost, Ghost>>, <<"B", "B">>>>}

\* the graph object the construction calls work on
TheGraph == Graph(nodes, entry_point, FALSE)

\* a call of add_node: the graph after it, and whether it raised
AddNode(name) ==
    /\ Len(log) < MaxBuildCalls
    /\ LET g == add_node(TheGraph, name, "agent", name, None)
       IN  /\ nodes' = g.nodes
           /\ entry_point' = g.entry_point
           /\ log' = Append(log, Call("add_node", name, None, g.raised, 0, FALSE, <<>>))
    /\ UNCHANGED <<engine_vars, aux_vars, registry_vars, service_vars>>

\* a call of add_edge
AddEdge(source, target) ==
    /\ Len(log) < MaxBuildCalls
    /\ LET g == add_edge(TheGraph, source, target, NoCondition)
       IN  /\ nodes' = g.nodes
           /\ entry_point' = g.entry_point
           /\ log' = Append(log, Call("add_edge", source, None, g.raised, 0, FALSE, <<>>))
    /\ UNCHANGED <<engine_vars, aux_vars, registry_vars, service_vars>>

\* a call of add_conditional_edges; what it did before raising stays
AddConditionalEdges(source, routes) ==
    /\ Len(log) < MaxBuildCalls
    /\ LET g == add_conditional_edges(TheGraph, source, "default", routes)
       IN  /\ nodes' = g.nodes
           /\ entry_point' = g.entry_point
           /\ log' = Append(log, Call("add_conditional_edges", source, None, g.raised, 0,
                                      FALSE, <<>>))
    /\ UNCHANGED <<engine_vars, aux_vars, registry_vars, service_vars>>

\* a call of set_entry_point
SetEntryPoint(name) ==
    /\ Len(log) < MaxBuildCalls
    /\ LET g == set_entry_point(TheGraph, name)
       IN  /\ nodes' = g.nodes
           /\ entry_point' = g.entry_point
           /\ log' = Append(log, Call("set_entry_point", name, None, g.raised, 0, FALSE,
                                      <<>>))
    /\ UNCHANGED <<engine_vars, aux_vars, registry_vars, service_vars>>

InitBuild == EngineIdle /\ NoGraph /\ RegistryIdle /\ ServiceIdle /\ AuxIdle

NextBuild ==
    \/ \E name \in BuildNodeNames : AddNode(name)
    \/ \E source \in BuildEndpoints, target \in BuildEndpoints : AddEdge(source, target)
    \/ \E source \in BuildEndpoints, routes \in BuildRouteTables :
          AddConditionalEdges(source, routes)
    \/ \E name \in BuildEndpoints : SetEntryPoint(name)

SpecBuild == InitBuild /\ [][NextBuild]_vars

\* ---- the service: execute_task calls with every outcome of its steps
InitService == EngineIdle /\ NoGraph /\ RegistryIdle /\ ServiceIdle /\ AuxIdle

NextService ==
    \/ \E cls_out \in ClassifierOutcomes, build \in {"graph", "raises"},
          exec_out \in ExecuteOutcomes : execute_task(cls_out, build, exec_out)
    \/ \E id \in 1..MaxExecutions : get_execution_status(id)

SpecService == InitService /\ [][NextService]_vars

\* ------------------------------------------------ graphs, agents, callers
\* The outgoing wiring of agent node a (o is the other agent), built with the
\* construction calls the workflows and the tests use.
Wirings ==
    {"none", "end", "other", "err_end_else_other", "other_then_end", "err_only",
     "default_router", "active_router", "status_router", "const_router",
     "raise_once_edge", "raise_edge", "raise_router"}

Wire(g, a, o, w) ==
    CASE w = "none"  -> g
      [] w = "end"   -> add_edge(g, a, END, NoCondition)
      [] w = "other" -> add_edge(g, a, o, NoCondition)
      [] w = "err_end_else_other" ->
            add_edge(add_edge(g, a, END, Pred("has_errors")), a, o, NoCondition)
      [] w = "other_then_end" ->
            add_edge(add_edge(g, a, o, NoCondition), a, END, NoCondition)
      [] w = "err_only" -> add_edge(g, a, END, Pred("has_errors"))
      [] w = "default_router" ->
            add_conditional_edges(g, a, "default", <<<<a, a>>, <<o, o>>, <<END, END>>>>)
      [] w = "active_router" ->
            add_conditional_edges(g, a, "active", <<<<o, o>>, <<Done, END>>, <<END, END>>>>)
      [] w = "status_router" ->
            add_conditional_edges(g, a, "by_status",
                                  <<<<"planned", o>>, <<"unplanned", END>>>>)
      [] w = "const_router" ->
            add_conditional_edges(g, a, "const_end", <<<<END, END>>>>)
      [] w = "raise_once_edge" -> add_edge(g, a, END, Pred("raise_once"))
      [] w = "raise_edge" -> add_edge(g, a, END, Pred("raise"))
      [] w = "raise_router" ->
            add_conditional_edges(g, a, "raise", <<<<END, END>>>>)

NoUpdates == EmptyDict
StatusUpdate == [status |-> "planning"]
NextAgentUpdate(x) == [next_agent |-> x]

\* what the agent at node A may do
BehavioursA ==
    {Beh(TRUE, "ok", n, NoUpdates, n # None) : n \in {None, "A", "B", END, Done, Ghost}}
    \cup {Beh(TRUE, "ok", n, u, TRUE) :
            n \in {"B", END},
            u \in {StatusUpdate, NextAgentUpdate("B"), NextAgentUpdate(Done)}}
    \cup {Beh(TRUE, "fail", n, NoUpdates, FALSE) : n \in {None, "B", END}}
    \cup {Beh(TRUE, "throw", None, NoUpdates, FALSE)}
    \cup {Beh(TRUE, "throw_once", n, NoUpdates, TRUE) : n \in {None, "B", END}}
    \cup {Beh(FALSE, "ok", END, NoUpdates, TRUE)}
    \cup {Beh(TRUE, "pre_throw", END, NoUpdates, TRUE)}

\* what the agent at node B may do
BehavioursB ==
    {Beh(TRUE, "ok", END, NoUpdates, TRUE),
     Beh(TRUE, "ok", Done, StatusUpdate, TRUE),
     Beh(TRUE, "ok", "A", NoUpdates, FALSE),
     Beh(TRUE, "throw", None, NoUpdates, FALSE)}

WiringsB == {"end", "default_router", "active_router"}

\* the caller's initial Work Record; active = None and max_retries = 0 stand
\* for a record without that key. When resuming, the agents that completed
\* before each left one agent_history entry.
CallerState(active, max_retries, next_agent, completed, error_count) ==
    (IF active = None THEN EmptyDict ELSE [active_agent |-> active])
    @@ (IF max_retries = 0 THEN EmptyDict ELSE [max_retries |-> max_retries])
    @@ [next_agent |-> next_agent, completed_agents |-> completed,
        messages |-> <<>>, error_count |-> error_count, error_messages |-> <<>>,
        agent_history |-> [i \in 1..Len(completed) |->
                             [agent |-> completed[i], status |-> "completed",
                              error |-> None]],
        status |-> "initializing"]

TwoAgents ==
    add_node(add_node(NewGraph, "A", "agent", "A", None), "B", "agent", "B", None)

Start(g, behs, cs) ==
    /\ nodes = g.nodes
    /\ entry_point = g.entry_point
    /\ behaviour = behs
    /\ caller_state = cs
    /\ state = EmptyDict
    /\ current = None
    /\ pc = "idle"
    /\ ran = <<>>
    /\ steps = 0
    /\ no_match = FALSE
    /\ RegistryIdle
    /\ ServiceIdle
    /\ AuxIdle

\* two agents, every wiring and behaviour of A, entry point A
InitGeneral ==
    \E wa \in Wirings, wb \in WiringsB, ba \in BehavioursA, bb \in BehavioursB,
       active \in {None, "B"}, mr \in 0..MaxRetriesInit :
        Start(set_entry_point(Wire(Wire(TwoAgents, "A", "B", wa), "B", "A", wb), "A"),
              ("A" :> ba) @@ ("B" :> bb),
              CallerState(active, mr, None, <<>>, 0))

\* a caller resuming or overriding: any active_agent (also names that are not
\* nodes), a pending next_agent, earlier completed_agents and error_count
InitResume ==
    \E wa \in {"end", "other", "default_router"},
       ba \in {Beh(TRUE, "ok", "B", NoUpdates, TRUE), Beh(TRUE, "throw", None, NoUpdates, FALSE)},
       active \in {None, "A", "B", "A_router", END, Done, Ghost},
       next_agent \in {None, "B", Done, Ghost},
       completed \in {<<>>, <<"B">>}, ec \in {0, 1}, mr \in {0, MaxRetriesInit} :
        Start(set_entry_point(Wire(Wire(TwoAgents, "A", "B", wa), "B", "A", "end"), "A"),
              ("A" :> ba) @@ ("B" :> Beh(TRUE, "ok", END, NoUpdates, TRUE)),
              CallerState(active, mr, next_agent, completed, ec))

\* a graph whose entry point was never set
InitNoEntry ==
    \E wa \in {"end", "default_router"}, active \in {None, "A", Ghost} :
        Start(Wire(TwoAgents, "A", "B", wa),
              ("A" :> Beh(TRUE, "ok", END, NoUpdates, TRUE))
                @@ ("B" :> Beh(TRUE, "ok", END, NoUpdates, TRUE)),
              CallerState(active, 0, None, <<>>, 0))

\* ---- linear chains: agents 1..k, agent i hands off to agent i + 1 and the
\* last one to the terminal node
RECURSIVE ChainNodes(_, _)
ChainNodes(g, k) ==
    IF k = 0 THEN g
    ELSE add_node(ChainNodes(g, k - 1), AgentPool[k], "agent", AgentPool[k], None)

ChainNext(i, k, last) == IF i < k THEN AgentPool[i + 1] ELSE last

\* the route table of build_development_workflow: every agent and END
ChainRoutes(k) == [i \in 1..(k + 1) |-> IF i <= k THEN <<AgentPool[i], AgentPool[i]>>
                                                   ELSE <<END, END>>]

RECURSIVE ChainWires(_, _, _, _)
ChainWires(g, k, i, style) ==
    IF i > k THEN g
    ELSE ChainWires(
            CASE style = "static" -> add_edge(g, AgentPool[i], ChainNext(i, k, END), NoCondition)
              [] style = "default_router" ->
                    add_conditional_edges(g, AgentPool[i], "default", ChainRoutes(k))
              [] style = "active_router" ->
                    add_conditional_edges(g, AgentPool[i], "active",
                        <<<<ChainNext(i, k, END), ChainNext(i, k, END)>>, <<Done, END>>>>),
            k, i + 1, style)

ChainGraph(k, style) == set_entry_point(ChainWires(ChainNodes(NewGraph, k), k, 1, style), "A")

ChainBehaviours(k, last) ==
    [a \in {AgentPool[i] : i \in 1..k} |->
        LET i == CHOOSE j \in 1..k : AgentPool[j] = a
        IN  Beh(TRUE, "ok", ChainNext(i, k, last), NoUpdates, TRUE)]

InitChain ==
    \E k \in 1..MaxChain, style \in {"static", "default_router", "active_router"},
       last \in {END, Done}, active \in {None, "A"},
       completed \in {<<>>, <<"A">>}, mr \in {0, MaxRetriesInit} :
        Start(ChainGraph(k, style), ChainBehaviours(k, last),
              CallerState(active, mr, None, completed, 0))

Init == InitGeneral \/ InitResume \/ InitNoEntry \/ InitChain

Spec == Init /\ [][Next]_vars

\* ---- two execute() calls on one graph, interleaved at every step
ConcurrentCallers ==
    {CallerState(None, 0, None, <<>>, 0),
     CallerState(None, MaxRetriesInit, None, <<"B">>, 1),
     CallerState(Ghost, 0, None, <<>>, 0)}

ConcurrentBehaviours ==
    {Beh(TRUE, "ok", "B", NoUpdates, TRUE),
     Beh(TRUE, "fail", None, NoUpdates, FALSE),
     Beh(TRUE, "throw_once", "B", NoUpdates, TRUE),
     Beh(FALSE, "ok", END, NoUpdates, TRUE)}

InitConcurrent ==
    /\ \E wa \in {"other", "default_router", "raise_once_edge"},
          ba \in ConcurrentBehaviours :
         LET g == set_entry_point(Wire(Wire(TwoAgents, "A", "B", wa), "B", "A", "end"), "A")
         IN  /\ nodes = g.nodes
             /\ entry_point = g.entry_point
             /\ behaviour = ("A" :> ba) @@ ("B" :> Beh(TRUE, "ok", END, NoUpdates, TRUE))
    /\ caller_state = EmptyDict
    /\ state = EmptyDict
    /\ current = None
    /\ pc = "idle"
    /\ ran = <<>>
    /\ steps = 0
    /\ no_match = FALSE
    /\ RegistryIdle
    /\ ServiceIdle
    /\ CoreAgentIdle
    /\ SocketsIdle
    /\ CoreSocketsIdle
    /\ executions \in [Executors -> {NewExecution(cs) : cs \in ConcurrentCallers}]
    /\ agent_state = [a \in {"A", "B"} |-> "idle"]

NextConcurrent ==
    \E e \in Executors :
        \/ ConcurrentExecute(e)
        \/ ConcurrentVisit(e)
        \/ ConcurrentRunBegins(e)
        \/ ConcurrentRunEnds(e)
        \/ ConcurrentRoute(e)
        \/ ConcurrentFinalize(e)

SpecConcurrent == InitConcurrent /\ [][NextConcurrent]_vars


\* ================================================================ claims
Status == state["status"]

\* the node execute() starts at
StartNode == Get(caller_state, "active_agent", entry_point)

RunsOf(a) == Cardinality({i \in 1..Len(ran) : ran[i] = a})

FailedEntries(a) ==
    Cardinality({i \in 1..Len(state["agent_history"]) :
                    /\ state["agent_history"][i].agent = a
                    /\ state["agent_history"][i].status = "failed"})

AlwaysThrows(a) ==
    /\ a \in DOMAIN behaviour
    /\ behaviour[a].pre
    /\ behaviour[a].outcome = "throw"

IsPrefix(p, sq) == Len(p) <= Len(sq) /\ \A i \in 1..Len(p) : p[i] = sq[i]

\* C1: an execution that starts at a node whose execute always throws, with
\* max_retries = 2, returns with error_count = 2, two failed agent_history
\* entries for that node and status error_requires_human_input.
C1_RetryThenEscalate ==
    (/\ pc = "done"
     /\ Get(caller_state, "max_retries", 0) = 2
     /\ StartNode \in DOMAIN nodes
     /\ IsAgentNode(nodes[StartNode])
     /\ AlwaysThrows(nodes[StartNode].agent))
    => /\ state["error_count"] = 2
       /\ FailedEntries(nodes[StartNode].agent) = 2
       /\ Status = "error_requires_human_input"

\* C2: the agent of a node whose execute always throws is run at most
\* max_retries times in one execution (so the execution cannot loop on it).
C2_ThrowingNodeRunBounded ==
    \A a \in DOMAIN behaviour :
        (AlwaysThrows(a) /\ Get(caller_state, "max_retries", DefaultMaxRetries) >= 1)
        => RunsOf(a) <= Get(caller_state, "max_retries", DefaultMaxRetries)

\* C3: when the caller's active_agent is not a node of the graph, no agent is
\* run, the loop enters no node, and execute() returns status failed with
\* error_count >= 1 and an error_messages entry naming that node.
UnknownStart ==
    /\ Truthy(entry_point)
    /\ "active_agent" \in DOMAIN caller_state
    /\ caller_state["active_agent"] \notin DOMAIN nodes

C3_UnknownNodeFails ==
    UnknownStart =>
        /\ ran = <<>>
        /\ steps = 0
        /\ pc \in {"idle", "loop", "final", "done"}
        /\ pc = "done" =>
              /\ Status = "failed"
              /\ state["error_count"] >= 1
              /\ \E i \in 1..Len(state["error_messages"]) :
                    state["error_messages"][i].name = caller_state["active_agent"]

C3_Witness ==
    /\ UnknownStart
    /\ pc = "done"
    /\ caller_state["active_agent"] = Ghost

\* C4: on a linear chain of k agents, each handing off to the next and the
\* last to the terminal node, an execution started at the head of the chain
\* (the caller's record carrying no pending next_agent override) runs the
\* agents once each in chain order, and the returned completed_agents is
\* that order.
ChainOrder(k) == [i \in 1..k |-> AgentPool[i]]

IsChainRun(k) ==
    /\ StartNode = AgentPool[1]
    /\ ~OverrideSet(caller_state)
    /\ \E last \in {END, Done} : behaviour = ChainBehaviours(k, last)
    /\ \E style \in {"static", "default_router", "active_router"} :
          nodes = ChainGraph(k, style).nodes

C4_ChainRunsInOrder ==
    \A k \in 1..MaxChain :
        IsChainRun(k) =>
            /\ IsPrefix(ran, ChainOrder(k))
            /\ pc = "done" => /\ ran = ChainOrder(k)
                              /\ state["completed_agents"] = ChainOrder(k)

C4_Witness ==
    /\ IsChainRun(MaxChain)
    /\ pc = "done"
    /\ Len(ran) = MaxChain
    /\ nodes[AgentPool[1]].edges[1].target = RouterName(AgentPool[1])


\* ---- routing claims
LastEntry == state["agent_history"][Len(state["agent_history"])]

\* the last agent run returned a result (did not raise) that names next_agent x
LastResultNames(x) ==
    /\ ran # <<>>
    /\ Len(state["agent_history"]) > 0
    /\ LastEntry.agent = ran[Len(ran)]
    /\ LastEntry.error = None
    /\ behaviour[ran[Len(ran)]].next = x

AgentNodes == {n \in DOMAIN nodes : IsAgentNode(nodes[n])}

\* nobody sets next_agent in this execution: neither the caller nor an agent
NoOverrides ==
    /\ ~OverrideSet(caller_state)
    /\ \A a \in DOMAIN behaviour : "next_agent" \notin DOMAIN behaviour[a].upd

\* the loop stands at (or ended on) a node that is not a router
AtNonRouter ==
    /\ pc \in {"loop", "final", "done"}
    /\ current \in DOMAIN nodes => nodes[current].type # "router"

\* the statement of C5 as claimed: after an agent whose result names
\* next_agent = x, a node of the graph, the node the engine goes on with is
\* x, whatever the edges of the node are (taken where the result was a
\* success, some edge matched and no routing step raised).
C5_HandoffAlwaysWins ==
    \A x \in AgentNodes :
        (/\ AtNonRouter
         /\ LastResultNames(x)
         /\ LastEntry.status = "completed"
         /\ NoOverrides
         /\ ~no_match
         /\ Status # "failed")
        => current = x

\* the first outgoing edge of node n is unconditional and leads to t
FirstEdgeTo(n, t) ==
    /\ Len(nodes[n].edges) >= 1
    /\ nodes[n].edges[1].condition.kind = "none"
    /\ nodes[n].edges[1].target = t

\* node n was wired by add_conditional_edges with a router that returns
\* the record's active_agent
RoutesByActiveAgent(n) ==
    /\ FirstEdgeTo(n, RouterName(n))
    /\ RouterName(n) \in DOMAIN nodes
    /\ nodes[RouterName(n)].router_func \in {"default", "active"}

\* C5 (amended): when an agent's result names next_agent = x, a node of the
\* graph, the merged record has active_agent = x; with no next_agent override
\* in play the node the engine goes on with is the one the current node's
\* edges select: the target of its first unconditional edge, even when that
\* is not x, and x itself where the node is wired to a router that returns
\* active_agent.
C5_HandoffSetsActiveAgent ==
    \A x \in AgentNodes :
        (AtNonRouter /\ LastResultNames(x))
        => /\ state["active_agent"] = x
           /\ NoOverrides =>
                \A a \in AgentNodes :
                    a = ran[Len(ran)] =>
                        /\ \A y \in DOMAIN nodes :
                              (FirstEdgeTo(a, y) /\ nodes[y].type # "router")
                              => current = y
                        /\ RoutesByActiveAgent(a) => current = x

C5_Witness ==
    /\ pc = "done"
    /\ ran = <<"A">>
    /\ LastResultNames("B")
    /\ NoOverrides
    /\ FirstEdgeTo("A", END)
    /\ current = END
    /\ state["active_agent"] = "B"

MapDone(v) == IF v = Done THEN END ELSE v

\* C6: when next_agent is set in the merged record, the routing step goes to
\* that value (Done standing for END) whatever the edges of the node are,
\* and clears next_agent in the same step, so the node entered next starts
\* with no override pending.
C6_OverrideOnce ==
    [][(pc = "route" /\ OverrideSet(state))
       => /\ pc' = "loop"
          /\ current' = MapDone(state["next_agent"])
          /\ ~OverrideSet(state')
          /\ state'["next_agent"] = None]_vars

C6_Witness ==
    /\ pc = "loop"
    /\ ran = <<"A">>
    /\ current = "B"
    /\ "next_agent" \in DOMAIN behaviour["A"].upd
    /\ behaviour["A"].next = END
    /\ FirstEdgeTo("A", END)
    /\ state["next_agent"] = None

\* the route table of a router node, read back from its edges
RouteKeys(n) == {nodes[n].edges[i].condition.key : i \in 1..Len(nodes[n].edges)}
RouteTarget(n, k) ==
    nodes[n].edges[CHOOSE i \in 1..Len(nodes[n].edges) :
                        nodes[n].edges[i].condition.key = k].target

\* C7: at the router node add_conditional_edges made, when routerFn(state) is
\* a key of the route table the engine goes on to routeTable[routerFn(state)].
C7_RouteTableApplied ==
    [][(/\ pc = "route"
        /\ IsRouter(nodes[current])
        /\ ~OverrideSet(state)
        /\ ~RouterRaises(nodes[current].router_func, state)
        /\ RouterEval(nodes[current].router_func, state) \in RouteKeys(current))
       => current' = RouteTarget(current, RouterEval(nodes[current].router_func, state))]_vars

\* C8: at a node with several outgoing edges and no next_agent override the
\* engine goes on to the target of the first edge, in insertion order, whose
\* condition is true.
FirstTrue(edges, s) ==
    CHOOSE i \in 1..Len(edges) :
        /\ should_traverse(edges[i], s)
        /\ \A j \in 1..(i - 1) : ~should_traverse(edges[j], s)

C8_FirstMatchingEdge ==
    [][(/\ pc = "route"
        /\ Len(nodes[current].edges) >= 2
        /\ ~OverrideSet(state)
        /\ ~GetNextRaises(nodes[current], state)
        /\ ~NoMatch(nodes[current], state))
       => current' = nodes[current].edges[FirstTrue(nodes[current].edges, state)].target]_vars

\* C9: when a routing step finds no matching edge (for a router: the key it
\* returns is not in the route table) and no override is set, execute()
\* returns status failed with an engine diagnostic in error_messages.
C9_NoMatchFails ==
    (pc = "done" /\ no_match)
    => /\ Status = "failed"
       /\ \E i \in 1..Len(state["error_messages"]) :
             state["error_messages"][i].kind # "agent"

\* C10: the status execute() returns is completed, failed or
\* error_requires_human_input.
C10_TerminalStatus ==
    pc = "done" => Status \in {"completed", "failed", "error_requires_human_input"}

\* ---- the bookkeeping fields of the Work Record over one execute()
\* the record execute() works on: the caller's until execute() copied it
Record == IF pc \in {"idle", "raised"} THEN caller_state ELSE state

History == Get(Record, "agent_history", <<>>)

Completed == Get(Record, "completed_agents", <<>>)

ErrorCount == Get(Record, "error_count", 0)

ErrorMessages == Get(Record, "error_messages", <<>>)

Running == pc \notin {"idle", "raised"}

\* the agent_history entries this execution added
NewEntries == {i \in 1..Len(History) : i > Len(Get(caller_state, "agent_history", <<>>))}

\* C11: agent_history is append-only over a whole execution: every step leaves
\* the previous agent_history a prefix of the new one, every call of
\* agent.run (successful, failed or retried) adds exactly one entry, naming
\* the agent that ran, and no other step adds one.
C11_HistoryAppendOnly ==
    [][/\ IsPrefix(History, History')
       /\ ran' # ran =>
             /\ Len(History') = Len(History) + 1
             /\ History'[Len(History')].agent = ran'[Len(ran')]
       /\ ran' = ran => History' = History]_vars

\* a node whose run failed was run again and then succeeded
C11_Witness ==
    /\ pc = "done"
    /\ Len(ran) >= 2
    /\ ran[1] = ran[2]
    /\ Len(History) = Len(ran)
    /\ History[1].status = "failed"
    /\ History[2].status = "completed"

\* C12: in every state of an execution completed_agents holds no name twice,
\* also when a routing cycle or a retry runs the same node more than once.
C12_NoDuplicates ==
    Running => \A i, j \in 1..Len(Completed) : Completed[i] = Completed[j] => i = j

\* the same agent succeeded twice (a routing cycle) and is listed once
C12_Witness ==
    /\ pc = "done"
    /\ Cardinality({i \in NewEntries : History[i].agent = "A"
                                         /\ History[i].status = "completed"}) >= 2
    /\ InSeq("A", Completed)

\* C13: a name is in completed_agents only if a run of that agent in this
\* execution returned success: a run that threw, failed its preconditions or
\* returned success = False adds nothing to completed_agents.
C13_CompletedOnlyOnSuccess ==
    /\ Running =>
          \A i \in 1..Len(Completed) :
              \E j \in NewEntries : /\ History[j].agent = Completed[i]
                                    /\ History[j].status = "completed"
    /\ Running =>
          \A a \in DOMAIN behaviour :
              (~behaviour[a].pre \/ behaviour[a].outcome \in {"throw", "fail", "pre_throw"})
              => ~InSeq(a, Completed)

\* agent A returned success = False, agent B succeeded: only B is listed
C13_Witness ==
    /\ pc = "done"
    /\ InSeq("A", ran)
    /\ behaviour["A"].outcome = "fail"
    /\ Completed = <<"B">>

\* the agent the last call of run() belongs to
LastRan == ran[Len(ran)]

\* C14: BaseAgent.run returns a delta and never raises, whatever
\* validate_preconditions and execute do: every call of run() is followed by
\* the merge of its delta and the routing step, never by the except branch of
\* the loop, and the delta carries the audit entry of the call.
C14_RunNeverRaises ==
    [][ran' # ran =>
         /\ pc' = "route"
         /\ "agent_history" \in DOMAIN state'
         /\ Len(state'["agent_history"]) = Len(Get(state, "agent_history", <<>>)) + 1]_vars

\* validate_preconditions itself raised and run() returned the failure delta
C14_Witness ==
    /\ pc = "route"
    /\ ran = <<"A">>
    /\ behaviour["A"].outcome = "pre_throw"
    /\ ErrorCount = 1
    /\ History[Len(History)].error = "validate_preconditions raised"

\* the agent's execute or validate_preconditions raises at every call
AlwaysRaises(a) ==
    \/ ~behaviour[a].pre
    \/ behaviour[a].outcome \in {"throw", "pre_throw"}

HasErrorMessage(a, text) ==
    \E k \in 1..Len(ErrorMessages) :
        ErrorMessages[k] = [kind |-> "agent", name |-> a, text |-> text]

\* C15: with an entry point set execute() never raises, whatever the agents
\* do, and the record it returns shows every agent exception: error_count > 0
\* and an error_messages entry of that agent carrying the exception text.
C15_ExecuteNeverRaises ==
    /\ Truthy(entry_point) => pc # "raised"
    /\ pc = "done" =>
          /\ \A i \in 1..Len(ran) :
                AlwaysRaises(ran[i]) =>
                    /\ ErrorCount > 0
                    /\ HasErrorMessage(ran[i], ErrorText(behaviour[ran[i]]))
          /\ \A j \in NewEntries :
                History[j].error # None =>
                    /\ ErrorCount > 0
                    /\ HasErrorMessage(History[j].agent, History[j].error)

\* an agent whose execute raises ran, and execute() returned
C15_Witness ==
    /\ pc = "done"
    /\ InSeq("A", ran)
    /\ behaviour["A"].pre
    /\ behaviour["A"].outcome = "throw"
    /\ HasErrorMessage("A", "execute raised")

\* C16: when validate_preconditions returns false, run() does not call
\* execute (nothing of the agent's result reaches the record: no message, no
\* hand-off, no completed_agents entry) and returns a failure delta:
\* error_count + 1, the precondition error text appended to error_messages,
\* and a failed entry appended to agent_history.
C16_PreconditionFailure ==
    [][(ran' # ran /\ ~behaviour[ran'[Len(ran')]].pre) =>
         LET a == ran'[Len(ran')]
             s1 == Update(state, [active_agent |-> nodes[current].name])
         IN  state' =
               Update(s1,
                   [error_count |-> Get(state, "error_count", 0) + 1,
                    error_messages |->
                        Append(Get(state, "error_messages", <<>>),
                               [kind |-> "agent", name |-> a,
                                text |-> "Preconditions not met"]),
                    agent_history |->
                        Append(Get(state, "agent_history", <<>>),
                               [agent |-> a, status |-> "failed",
                                error |-> "Preconditions not met"])])]_vars

\* the agent whose preconditions fail was run once: one error, no message
C16_Witness ==
    /\ pc = "route"
    /\ ran = <<"A">>
    /\ ~behaviour["A"].pre
    /\ ErrorCount = 1
    /\ state["messages"] = <<>>
    /\ ~InSeq("A", Completed)

\* C17: execute() on a graph whose entry point was never set reaches the
\* terminal state and returns a record with status failed and a diagnostic in
\* error_messages (it does not end by raising).
C17_NoEntryPointFails ==
    (~Truthy(entry_point) /\ pc # "idle") =>
        /\ pc # "raised"
        /\ pc = "done" => (Status = "failed" /\ Len(ErrorMessages) >= 1)

\* C17 (amended): execute() on a graph whose entry point was never set raises
\* before it copies the caller's record: no record is built or returned, no
\* node is entered and no agent is run.
C17_NoEntryPointRaises ==
    ~Truthy(entry_point) =>
        /\ pc \in {"idle", "raised"}
        /\ state = EmptyDict
        /\ current = None
        /\ ran = <<>>
        /\ steps = 0

\* execute() raised although the caller's active_agent names a node
C17_Witness ==
    /\ ~Truthy(entry_point)
    /\ pc = "raised"
    /\ Get(caller_state, "active_agent", None) = "A"

\* C18: execute() defaults only the fields missing from the initial state:
\* when the first node is about to run, completed_agents and error_count
\* still hold the values the caller supplied.
C18_CallerValuesKept ==
    (pc = "loop" /\ steps = 0) =>
        /\ Completed = Get(caller_state, "completed_agents", <<>>)
        /\ ErrorCount = Get(caller_state, "error_count", 0)

\* C19: from the moment execute() is entered until it returns, error_count
\* never decreases, whatever error_count the caller's record holds.
C19_ErrorCountMonotonic == [][ErrorCount' >= ErrorCount]_vars

\* the names active_agent may hold: the nodes of the graph (the terminal node
\* END among them) and the alias Done of the terminal node
NodeOrTerminal == DOMAIN nodes \cup {END, Done}

\* C20: in every state of an execution that a caller started with a valid
\* active_agent (or none), the returned state included, active_agent is the
\* name of a node of the graph or the terminal sentinel.
C20_ActiveAgentIsNode ==
    (/\ Running
     /\ Get(caller_state, "active_agent", END) \in NodeOrTerminal
     /\ "active_agent" \in DOMAIN state)
    => state["active_agent"] \in NodeOrTerminal

\* agent a always returns a success that hands off to the terminal node
HandsOffToTerminal(a) ==
    /\ behaviour[a].pre
    /\ behaviour[a].outcome = "ok"
    /\ behaviour[a].next \in {END, Done}

MessagesOf(a) ==
    Cardinality({i \in 1..Len(Get(Record, "messages", <<>>)) :
                    Record["messages"][i].agent_name = a})

\* C21: when an agent hands off to the terminal sentinel (END or its alias
\* Done), no further agent runs and execute() returns status completed, with
\* that agent in completed_agents and its message appended exactly once
\* (taken where the hand-off can take effect: the node is wired to a router
\* that returns active_agent and nobody sets a next_agent override).
C21_TerminalHandoffCompletes ==
    NoOverrides =>
        \A i \in 1..Len(ran) :
            (HandsOffToTerminal(ran[i]) /\ RoutesByActiveAgent(ran[i])) =>
                /\ i = Len(ran)
                /\ pc = "done" =>
                      /\ Status = "completed"
                      /\ InSeq(ran[i], Completed)
                      /\ behaviour[ran[i]].msg => MessagesOf(ran[i]) = 1

\* the last call of run() ended in the except branch of run()
LastRunRaised ==
    /\ ran # <<>>
    /\ Len(History) > 0
    /\ History[Len(History)].agent = LastRan
    /\ History[Len(History)].status = "failed"
    /\ History[Len(History)].error # None

\* C26: when an agent's run reported a failure (run() caught an exception)
\* and error_count is still below max_retries, the engine does not advance:
\* the next agent it runs is the same one again.
C26_FailedNodeRunsAgain ==
    [][(/\ ran' # ran
        /\ LastRunRaised
        /\ ErrorCount < Get(state, "max_retries", DefaultMaxRetries))
       => ran'[Len(ran')] = LastRan]_vars

\* the keys the failure delta of run() writes
FailureKeys == {"error_messages", "error_count", "agent_history"}

\* C28: the delta run() returns after an exception writes only
\* error_messages (one entry longer), error_count (previous + 1) and
\* agent_history (one failed entry carrying the error text); the merge leaves
\* every other field, completed_agents, active_agent and messages among
\* them, as it was when run() was called.
C28_FailureDeltaFrame ==
    [][(ran' # ran /\ LastRunRaised') =>
         LET a == ran'[Len(ran')]
             s1 == Update(state, [active_agent |-> nodes[current].name])
         IN  /\ DOMAIN state' = DOMAIN s1 \cup FailureKeys
             /\ \A k \in DOMAIN s1 \ FailureKeys : state'[k] = s1[k]
             /\ state'["active_agent"] = nodes[current].name
             /\ state'["error_count"] = Get(state, "error_count", 0) + 1
             /\ Len(state'["error_messages"]) = Len(Get(state, "error_messages", <<>>)) + 1
             /\ IsPrefix(Get(state, "error_messages", <<>>), state'["error_messages"])
             /\ Len(state'["agent_history"]) = Len(Get(state, "agent_history", <<>>)) + 1
             /\ History'[Len(History')].error
                  = state'["error_messages"][Len(state'["error_messages"])].text]_vars

\* an execute that would have handed off to B with a message raised instead
C28_Witness ==
    /\ pc = "route"
    /\ ran = <<"A">>
    /\ behaviour["A"].outcome = "throw_once"
    /\ behaviour["A"].next = "B"
    /\ LastRunRaised
    /\ state["active_agent"] = "A"
    /\ state["messages"] = <<>>
    /\ Completed = <<>>

\* the engine stands at a ROUTER node
AtRouter ==
    /\ pc \in {"loop", "route"}
    /\ current \in DOMAIN nodes
    /\ nodes[current].type = "router"

\* C29: visiting a ROUTER node leaves every field of the Work Record
\* unchanged; only the engine's current node changes.
C29_RouterLeavesRecord == [][AtRouter => state' = state]_vars

\* C29 (amended): visiting a ROUTER node whose router function returns, with
\* no next_agent override pending, leaves every field of the Work Record
\* unchanged; a pending override is cleared (next_agent only) and a router
\* function that raises is recorded as status failed and error_count + 1.
C29_RouterLeavesRecordUnlessRaised ==
    [][AtRouter =>
         IF pc = "route" /\ GetNextRaises(nodes[current], state)
         THEN state' = Update(state, [status |-> "failed",
                                      error_count |-> Get(state, "error_count", 0) + 1])
         ELSE IF pc = "route" /\ OverrideSet(state)
              THEN state' = Update(state, [next_agent |-> None])
              ELSE state' = state]_vars

\* the router of A was visited after A ran and sent the engine to B
C29_Witness ==
    /\ pc = "loop"
    /\ ran = <<"A">>
    /\ steps = 2
    /\ current = "B"
    /\ RoutesByActiveAgent("A")
    /\ state["active_agent"] = "B"

\* ======================================== claims on graph construction
\* C22: after any sequence of add_node, add_edge, add_conditional_edges and
\* set_entry_point calls, successful or failing, every node is stored under its
\* own name (names are unique), every edge's source and target are nodes of
\* the graph, and the entry point is unset or an existing node.
C22_GraphWellFormed ==
    /\ \A n \in DOMAIN nodes :
          /\ nodes[n].name = n
          /\ \A i \in 1..Len(nodes[n].edges) :
                /\ nodes[n].edges[i].source = n
                /\ nodes[n].edges[i].target \in DOMAIN nodes
    /\ entry_point = None \/ entry_point \in DOMAIN nodes
    /\ END \in DOMAIN nodes

\* add_conditional_edges raised on its second route and left the router
\* node with the one edge it had added
C22_Witness ==
    /\ log # <<>>
    /\ log[Len(log)].op = "add_conditional_edges"
    /\ log[Len(log)].raised
    /\ "A_router" \in DOMAIN nodes
    /\ Len(nodes["A_router"].edges) = 1

\* ================================================ claims on the registry
LastCall == log[Len(log)]

Gets == {i \in 1..Len(log) : log[i].op = "get"}

ClearBetween(i, j) == \E k \in (i + 1)..(j - 1) : log[k].op = "clear"

\* by the calls made before call i, name was bound when call i was made
RegisteredAt(i, name) ==
    \E k \in 1..(i - 1) :
        log[k].op = "register" /\ log[k].name = name /\ ~log[k].raised

\* call i asked the registry for the instance of name, which was bound
Uses(i, name) ==
    /\ RegisteredAt(i, name)
    /\ \/ log[i].op = "get" /\ log[i].name = name
       \/ log[i].op = "build" /\ InSeq(name, WorkflowAgents(agents))

\* C23: register(name, cls) on a name that is already bound fails and leaves
\* the name-to-class bindings and the instance cache unchanged; register with
\* a class that is not an agent fails and binds nothing.
C23_RegisterRejects ==
    [][(log' # log /\ log'[Len(log')].op = "register") =>
         LET c == log'[Len(log')]
         IN  /\ Registered(agents, c.name) =>
                   (c.raised /\ agents' = agents /\ instances' = instances)
             /\ ~IsAgentClass(c.cls) =>
                   (c.raised /\ agents' = agents /\ instances' = instances)
             /\ (~Registered(agents, c.name) /\ IsAgentClass(c.cls)) =>
                   (~c.raised /\ Registered(agents', c.name)
                    /\ ClassOf(agents', c.name) = c.cls)]_vars

\* a second register of a bound name, with another class, was rejected while
\* an instance of the first class was cached
C23_Witness ==
    \E i \in 1..Len(log) :
        /\ log[i].op = "register"
        /\ log[i].raised
        /\ IsAgentClass(log[i].cls)
        /\ Registered(agents, log[i].name)
        /\ ClassOf(agents, log[i].name) # log[i].cls
        /\ log[i].name \in DOMAIN instances
        /\ instances[log[i].name].cls = ClassOf(agents, log[i].name)

\* C24: for a registered name every get_agent_instance call between two
\* consecutive clear_instances calls returns the same instance, constructed
\* by the first request for it; for an unregistered name the call returns
\* None, constructs nothing and caches nothing.
C24_InstanceCached ==
    /\ \A j \in Gets :
          IF RegisteredAt(j, log[j].name)
          THEN /\ log[j].inst # 0
               /\ log[j].constructed <=>
                     ~\E i \in 1..(j - 1) : Uses(i, log[j].name) /\ ~ClearBetween(i, j)
               /\ \A i \in Gets :
                     (i < j /\ log[i].name = log[j].name /\ log[i].inst # 0
                      /\ ~ClearBetween(i, j))
                     => log[i].inst = log[j].inst
          ELSE log[j].inst = 0 /\ ~log[j].constructed
    /\ \A n \in DOMAIN instances : Registered(agents, n)

\* two calls for the same registered name gave the same instance, and a call
\* for an unregistered name gave None
C24_Witness ==
    /\ \E i, j \in Gets :
          i < j /\ log[i].name = log[j].name /\ log[i].inst # 0
          /\ log[i].inst = log[j].inst
    /\ \E i \in Gets : log[i].inst = 0

Reverse(sq) == [i \in 1..Len(sq) |-> sq[Len(sq) + 1 - i]]

\* the records routing may look at: every value of active_agent
RoutingRecords ==
    {EmptyDict} \cup {[active_agent |-> a] : a \in {"A", "B", END, Done, Ghost}}

\* C25: registering the agents in the opposite order gives the same workflow
\* graph (nodes, edges in the same order, entry point) and so the same
\* routing: every node sends every Work Record to the same next node.
C25_RegistrationOrderIrrelevant ==
    LET g1 == BuildDevelopmentWorkflow(agents)
        g2 == BuildDevelopmentWorkflow(Reverse(agents))
    IN  /\ g1 = g2
        /\ \A n \in DOMAIN g1.nodes :
              /\ n \in DOMAIN g2.nodes
              /\ \A s \in RoutingRecords :
                    GetNextNode(g1.nodes[n], s) = GetNextNode(g2.nodes[n], s)

\* B was registered before A and the workflow was built from that registry
C25_Witness ==
    /\ Len(agents) = 2
    /\ agents[1].name = "B"
    /\ LastCall.op = "build"
    /\ ~LastCall.raised
    /\ entry_point = "A"
    /\ "B_router" \in DOMAIN nodes

\* C30: clear_instances empties the instance cache and leaves the
\* registrations unchanged: list_agents returns the same names as before, and
\* get_agent_instance for a registered name returns a newly constructed
\* instance, distinct from the one returned before the clear.
C30_ClearKeepsRegistrations ==
    /\ (log # <<>> /\ LastCall.op = "clear") => instances = EmptyDict
    /\ \A i, j \in Gets :
          (i < j /\ log[i].name = log[j].name /\ log[i].inst # 0 /\ ClearBetween(i, j))
          => /\ log[j].inst # 0
             /\ log[j].inst # log[i].inst
    /\ \A j \in Gets :
          (j > 1 /\ log[j - 1].op = "clear" /\ RegisteredAt(j, log[j].name))
          => log[j].constructed
    /\ \A i, j \in 1..Len(log) :
          (/\ i < j
           /\ log[i].op = "list"
           /\ log[j].op = "list"
           /\ \A k \in (i + 1)..(j - 1) : log[k].op # "register")
          => log[i].names = log[j].names

\* an instance was handed out, the cache was cleared, and the next call for
\* the same name handed out another instance
C30_Witness ==
    \E i, j \in Gets :
        /\ i < j
        /\ log[i].name = log[j].name
        /\ log[i].inst # 0
        /\ ClearBetween(i, j)
        /\ log[j].inst # log[i].inst

\* ================================================= claims on the service
\* C27: execute_task never raises: when the workflow cannot be created (no
\* builder for the task type, or the builder raises) or its execution raises,
\* it returns status failed with the error text, and the execution stored
\* under the returned execution_id has status failed and at least one error.
C27_ExecuteTaskNeverRaises ==
    returned.workflow # None =>
        /\ ~returned.raised
        /\ returned.execution_id \in DOMAIN active_executions
        /\ (returned.workflow \in {"none", "raises"} \/ returned.exec_out = "raises") =>
              /\ returned.status = "failed"
              /\ returned.error # None
              /\ active_executions[returned.execution_id].state["status"] = "failed"
              /\ Len(active_executions[returned.execution_id].state["errors"]) >= 1

\* the second task's workflow was built and its execution raised
C27_Witness ==
    /\ returned.execution_id = 2
    /\ returned.workflow = "graph"
    /\ returned.exec_out = "raises"
    /\ returned.error = "Workflow failed"
    /\ active_executions[2].state["status"] = "failed"

\* ======================================== claims on faults and retries
\* the failed agent_history entries a step adds
FailedAdded ==
    Cardinality({i \in 1..Len(History') : /\ i > Len(History)
                                          /\ History'[i].status = "failed"})

\* the step is an engine-level fault: an unknown node, an exception while the
\* next node is resolved, or an exception that left agent.run
EngineFault ==
    \/ pc = "route" /\ GetNextRaises(nodes[current], state)
    \/ pc = "loop" /\ current # END /\ current \notin DOMAIN nodes
    \/ /\ pc = "loop"
       /\ current \in DOMAIN nodes
       /\ IsAgentNode(nodes[current])
       /\ RunEscapes(behaviour[nodes[current].agent],
                     Update(state, [active_agent |-> nodes[current].name]))

\* C35: at every point of an execution error_count is the number of failed
\* agent_history records this execution appended plus the number of engine
\* faults it recorded: execute() starts the count at 0 and every step adds
\* to it exactly the failed records and the engine fault of that step, a run
\* that returned success = False without throwing included.
C35_ErrorCountCountsFailures ==
    [][/\ (pc = "idle" /\ pc' = "loop") => ErrorCount' = 0
       /\ (Running /\ pc # "done") =>
             ErrorCount' = ErrorCount + FailedAdded
                           + (IF EngineFault THEN 1 ELSE 0)]_vars

\* C36: a returned status of failed implies the loop ended on a fatal fault
\* (a break that leaves the engine on a node other than the terminal one): an
\* execution that left the loop by a normal route into the terminal node
\* does not return status = failed, also after a routing attempt that raised
\* and was retried.
C36_FailedImpliesFatalFault ==
    (pc = "done" /\ Status = "failed") => current # END

\* C37: an exception raised by an edge predicate or a router function while
\* the engine resolves the next node of an AGENT node, whose run has already
\* been merged, never puts the engine back at the top of the loop on the same
\* node, where the agent would run a second time for the same visit.
C37_RoutingFaultNeverRerunsAgent ==
    [][(/\ pc = "route"
        /\ IsAgentNode(nodes[current])
        /\ ran # <<>>
        /\ LastRan = nodes[current].agent
        /\ GetNextRaises(nodes[current], state))
       => ~(pc' = "loop" /\ current' = current /\ steps' < MaxSteps)]_vars

\* C38: an add_conditional_edges call that fails (unknown source, unknown
\* target in the route table, or a router node name that already exists)
\* leaves the nodes and edges of the graph, and its entry point, exactly as
\* they were before the call.
C38_FailedConditionalEdgesLeavesGraph ==
    [][(/\ log' # log
        /\ log'[Len(log')].op = "add_conditional_edges"
        /\ log'[Len(log')].raised)
       => (nodes' = nodes /\ entry_point' = entry_point)]_vars

\* ======================================== claims on the core agent
\* C31: in the lifecycle wrapper of core BaseAgent.execute, the failure that
\* brings error_count to the record's max_retries (3 when the record has
\* none) makes the delta escalate (project_status =
\* error_requires_human_input, hand-off to the terminal sentinel) and every
\* failure below max_retries re-selects the same agent, for every value of
\* max_retries.
C31_EscalatesAtMaxRetries ==
    [][(core_calls' # core_calls /\ core_delta'.failed) =>
         LET updates == core_delta'.updates
             max_retries == Get(core_state, "max_retries", DefaultMaxRetries)
         IN  /\ updates["error_count"] = Get(core_state, "error_count", 0) + 1
             /\ IF updates["error_count"] >= max_retries
                THEN /\ Get(updates, "project_status", None) = "error_requires_human_input"
                     /\ updates["active_agent"] = Done
                ELSE /\ updates["active_agent"] = core_delta'.agent
                     /\ "project_status" \notin DOMAIN updates]_vars

\* ======================================== claims on the socket managers
\* C39: in the services ConnectionManager, after any sequence of connect and
\* disconnect calls, a socket is in a project's active_connections set
\* exactly when it is a key of connection_info with that project id recorded,
\* and no project maps to an empty set.
C39_ConnectionsMatchInfo ==
    /\ \A project_id \in DOMAIN active_connections :
          active_connections[project_id] # {}
    /\ \A websocket \in Sockets, project_id \in Projects :
          (/\ project_id \in DOMAIN active_connections
           /\ websocket \in active_connections[project_id])
          <=> (/\ websocket \in DOMAIN connection_info
               /\ connection_info[websocket].project_id = project_id)

\* C40: in the core ConnectionManager, broadcast_to_project never raises when
\* a send fails, and when it ends every socket whose send failed is in
\* neither active_connections nor any list of project_connections, under
\* every interleaving with other broadcasts and with disconnects at the sends.
C40_BroadcastCleansUp ==
    [][\A b \in Broadcasters :
         broadcasts'[b].pc # broadcasts[b].pc =>
            /\ broadcasts'[b].pc # "raised"
            /\ broadcasts'[b].pc = "done" =>
                  \A i \in 1..Len(broadcasts'[b].disconnected) :
                     LET websocket == broadcasts'[b].disconnected[i]
                     IN  /\ ~InSeq(websocket, core_connections')
                         /\ \A p \in DOMAIN project_connections' :
                               ~InSeq(websocket, project_connections'[p])]_vars

\* ======================================== claims on concurrent executions
\* the steps one execute() call can take within its step budget
AloneFuel == 4 * MaxSteps + 2

\* the record execution e would return when run with no other execution
FinalAlone(e) == RunAlone(NewExecution(executions[e].initial_state), AloneFuel)

\* C32: two executions that run concurrently over separate Work Records and
\* share the agent instances each end with the same final Work Record (or the
\* same ValueError) as when run alone, under every interleaving of their steps.
C32_ConcurrentAsAlone ==
    \A e \in DOMAIN executions :
        executions[e].pc \in {"done", "raised"} =>
            /\ FinalAlone(e).pc = executions[e].pc
            /\ FinalAlone(e).state = executions[e].state

\* both executions are over, each began a run() while the other had the same
\* agent instance running, and their final records differ
C32_Witness ==
    /\ executions[1].pc = "done"
    /\ executions[2].pc = "done"
    /\ executions[1].overlapped
    /\ executions[2].overlapped
    /\ executions[1].state # executions[2].state
    /\ Len(executions[1].state["agent_history"]) >= 2

\* C33: the engine and the run lifecycle never mutate the caller's data in
\* place: while execute() runs and after it returned, the dict the caller
\* passed holds the same field values, and its messages, agent_history,
\* error_messages and completed_agents lists the same contents, as at the call.
C33_CallerRecordUntouched ==
    \A e \in DOMAIN executions : executions[e].caller = executions[e].initial_state

\* an execution is over that extended agent_history, messages and
\* error_messages and reset completed_agents, on a record that came with an
\* earlier history
C33_Witness ==
    \E e \in DOMAIN executions :
        LET x == executions[e]
        IN  /\ x.pc = "done"
            /\ x.initial_state["completed_agents"] = <<"B">>
            /\ Len(x.initial_state["agent_history"]) = 1
            /\ Len(x.state["agent_history"]) > 1
            /\ Len(x.state["messages"]) > 0
            /\ Len(x.state["error_messages"]) > 0
            /\ x.state["completed_agents"] # x.initial_state["completed_agents"]

\* the execution is suspended inside the agent's execute
InExecute(x) ==
    /\ x.pc = "running"
    /\ RaisingStep(behaviour[AgentOf(x)], x.state)
         \notin {"validate_preconditions", "preconditions_not_met"}

\* C34: while one execution's call of an agent's execute is in flight, the
\* lifecycle status of that shared agent instance reads RUNNING, under every
\* interleaving with the other executions that use the same instance.
C34_RunningWhileInFlight ==
    \A e \in DOMAIN executions :
        InExecute(executions[e]) => agent_state[AgentOf(executions[e])] = "running"

====
